---- MODULE Spec2Model ----
(***************************************************************************)
(* A model of the linear_networks crate (conradludgate/neural-rs): the     *)
(* graph protocol (init / exec / forward / back), the pair combinator, the *)
(* dense leaf, the activation wrapper, the parameter-container protocol,   *)
(* the optimisers and the training step.                                   *)
(*                                                                         *)
(* Floating point values are modelled as exact extended rationals: a       *)
(* normalised fraction n/d with d > 0, or d = 0 for the non-finite values  *)
(* (n = 0 is NaN, n = 1 is +inf, n = -1 is -inf).  Rounding is not         *)
(* modelled; division by zero and 0/0 are.                                 *)
(***************************************************************************)
EXTENDS Integers, Sequences, FiniteSets, TLC

\* ------------------------------------------------------------------ bounds
\* Largest number of arguments handed to the tuple!/net! macro.
MaxArgs == 8
\* Largest layer width (input size and output sizes of dense stages).
MaxSize == 2
\* Largest number of examples in a batch.
MaxBatch == 2
\* Largest number of train calls in one behaviour.
MaxTrain == 2
\* Resolution of a float: values are multiples of 1/d for some d <= Precision.
Precision == 64
\* The largest magnitude of a finite float.
MaxFloat == 512
\* Resolution of an inexact square root (sqrt is exact on perfect squares).
SqrtScale == 4

\* ------------------------------------------------------------ F: the floats
Abs(i) == IF i < 0 THEN -i ELSE i

Sign(i) == IF i < 0 THEN -1 ELSE IF i > 0 THEN 1 ELSE 0

RECURSIVE Gcd(_, _)
Gcd(a, b) == IF b = 0 THEN a ELSE Gcd(b, a % b)

\* The value n/d in lowest terms.
Exact(n, d) ==
    LET g == Gcd(Abs(n), Abs(d))
        s == Sign(d)
    IN  [n |-> s * (n \div g), d |-> Abs(d) \div g]

\* A float has finite precision and a finite range: a value finer than
\* 1/Precision is rounded to the nearest multiple of 1/Precision, and a value
\* beyond MaxFloat overflows to the infinity of its sign.
Round(x) ==
    IF Abs(x.n) > MaxFloat * x.d THEN [n |-> Sign(x.n), d |-> 0]
    ELSE IF x.d <= Precision THEN x
    ELSE LET q == x.n \div x.d
             r == x.n % x.d
         IN  Exact(q * Precision + ((2 * r * Precision + x.d) \div (2 * x.d)), Precision)

\* The float nearest to n/d.  d = 0 gives NaN (0/0) or a signed infinity.
Rat(n, d) ==
    IF d = 0 THEN [n |-> Sign(n), d |-> 0]
    ELSE Round(Exact(n, d))

FInt(i) == [n |-> i, d |-> 1]
FZero == FInt(0)
FOne == FInt(1)
NaN == [n |-> 0, d |-> 0]

IsNaN(x) == x.d = 0 /\ x.n = 0
IsInf(x) == x.d = 0 /\ x.n # 0
IsFinite(x) == x.d # 0

FNeg(x) == [n |-> -x.n, d |-> x.d]

FAdd(x, y) ==
    IF IsInf(x) /\ IsInf(y) THEN (IF x.n = y.n THEN x ELSE NaN)
    ELSE Rat(x.n * y.d + y.n * x.d, x.d * y.d)

FSub(x, y) == FAdd(x, FNeg(y))

FMul(x, y) == Rat(x.n * y.n, x.d * y.d)

FDiv(x, y) ==
    IF IsInf(x) /\ IsInf(y) THEN NaN
    ELSE Rat(x.n * y.d * (IF y.n < 0 THEN -1 ELSE 1), x.d * Abs(y.n))

FLt(x, y) ==
    IF IsNaN(x) \/ IsNaN(y) THEN FALSE
    ELSE IF IsInf(x) /\ IsInf(y) THEN x.n < y.n
    ELSE x.n * y.d < y.n * x.d

\* f64::max: the other operand when one is NaN.
FMax(x, y) == IF IsNaN(x) THEN y ELSE IF IsNaN(y) THEN x ELSE IF FLt(x, y) THEN y ELSE x

FAbs(x) == [n |-> Abs(x.n), d |-> x.d]

\* f64::signum: 1.0 for +0.0 and positive numbers, -1.0 for negatives, NaN for NaN.
FSignum(x) == IF IsNaN(x) THEN NaN ELSE IF x.n < 0 THEN FInt(-1) ELSE FOne

RECURSIVE FPowi(_, _)
FPowi(x, k) == IF k = 0 THEN FOne ELSE FMul(x, FPowi(x, k - 1))

RECURSIVE ISqrtFrom(_, _)
ISqrtFrom(i, r) == IF (r + 1) * (r + 1) > i THEN r ELSE ISqrtFrom(i, r + 1)

\* Largest r with r * r <= i.
ISqrt(i) == ISqrtFrom(i, 0)

IsSquare(i) == ISqrt(i) * ISqrt(i) = i

\* sqrt: exact on a ratio of perfect squares, else rounded down to 1/SqrtScale.
FSqrt(x) ==
    IF IsNaN(x) \/ x.n < 0 THEN NaN
    ELSE IF IsInf(x) THEN x
    ELSE IF IsSquare(x.n) /\ IsSquare(x.d) THEN Rat(ISqrt(x.n), ISqrt(x.d))
    ELSE Rat(ISqrt((x.n * SqrtScale * SqrtScale) \div x.d), SqrtScale)

\* ------------------------------------------------------ ndarray: the arrays
\* An Array1 is [dim |-> 1, a |-> <<x1, ..., xk>>]; an Array2 is
\* [dim |-> 2, a |-> <<row1, ..., rowr>>], every row of the same length.
\* A panic of ndarray (incompatible shapes) is the value Panicked, which every
\* operation hands on.
Arr1(v) == [dim |-> 1, a |-> v]
Arr2(m) == [dim |-> 2, a |-> m]
Panicked == [dim |-> 0, a |-> <<>>]

Rows(A) == Len(A.a)
Cols(A) == Len(A.a[1])

\* ArrayBase::shape
ArrShape(A) ==
    IF A.dim = 1 THEN <<Len(A.a)>>
    ELSE IF A.dim = 2 THEN <<Rows(A), Cols(A)>>
    ELSE <<>>

RECURSIVE SumSeq(_)
SumSeq(s) == IF s = <<>> THEN FZero ELSE FAdd(s[1], SumSeq(Tail(s)))

VDot(u, v) == SumSeq([k \in 1..Len(u) |-> FMul(u[k], v[k])])

\* ArrayBase::t
Transpose(A) ==
    IF A.dim # 2 THEN A
    ELSE Arr2([j \in 1..Cols(A) |-> [i \in 1..Rows(A) |-> A.a[i][j]]])

\* ArrayBase::dot for (Array2, Array2), (Array2, Array1) and (Array1, Array1)
Dot(A, B) ==
    IF A.dim = 2 /\ B.dim = 2 THEN
        IF Cols(A) # Rows(B) THEN Panicked
        ELSE Arr2([i \in 1..Rows(A) |->
                     [j \in 1..Cols(B) |->
                        SumSeq([k \in 1..Cols(A) |-> FMul(A.a[i][k], B.a[k][j])])]])
    ELSE IF A.dim = 2 /\ B.dim = 1 THEN
        IF Cols(A) # Len(B.a) THEN Panicked
        ELSE Arr1([i \in 1..Rows(A) |-> VDot(A.a[i], B.a)])
    ELSE Panicked

\* ArrayBase::insert_axis
InsertAxis(A, axis) ==
    IF A.dim # 1 THEN Panicked
    ELSE IF axis = 1 THEN Arr2([i \in 1..Len(A.a) |-> <<A.a[i]>>])
    ELSE Arr2(<<A.a>>)

\* Array + Array, the right operand broadcast to the left one's shape
\* (a column of length r is repeated over the columns).
ArrAdd(A, B) ==
    IF A.dim = 1 /\ B.dim = 1 THEN
        IF Len(A.a) # Len(B.a) THEN Panicked
        ELSE Arr1([i \in 1..Len(A.a) |-> FAdd(A.a[i], B.a[i])])
    ELSE IF A.dim = 2 /\ B.dim = 2 THEN
        IF Rows(A) = Rows(B) /\ Cols(A) = Cols(B) THEN
            Arr2([i \in 1..Rows(A) |-> [j \in 1..Cols(A) |-> FAdd(A.a[i][j], B.a[i][j])]])
        ELSE IF Rows(A) = Rows(B) /\ Cols(B) = 1 THEN
            Arr2([i \in 1..Rows(A) |-> [j \in 1..Cols(A) |-> FAdd(A.a[i][j], B.a[i][1])]])
        ELSE Panicked
    ELSE Panicked

\* ArrayBase::mapv
Mapv(A, f(_)) ==
    IF A.dim = 1 THEN Arr1([i \in 1..Len(A.a) |-> f(A.a[i])])
    ELSE IF A.dim = 2 THEN
        Arr2([i \in 1..Rows(A) |-> [j \in 1..Cols(A) |-> f(A.a[i][j])]])
    ELSE Panicked

\* An elementwise binary operation on two arrays of one shape.
Zip(A, B, f(_, _)) ==
    IF A.dim # B.dim \/ ArrShape(A) # ArrShape(B) THEN Panicked
    ELSE IF A.dim = 1 THEN Arr1([i \in 1..Len(A.a) |-> f(A.a[i], B.a[i])])
    ELSE IF A.dim = 2 THEN
        Arr2([i \in 1..Rows(A) |-> [j \in 1..Cols(A) |-> f(A.a[i][j], B.a[i][j])]])
    ELSE Panicked

\* Array / scalar
ArrDivScalar(A, s) == Mapv(A, LAMBDA x : FDiv(x, s))

\* ArrayBase::mean_axis(Axis(1)) of an Array2: the mean of every row.
MeanAxis1(A) ==
    IF A.dim # 2 THEN Panicked
    ELSE Arr1([i \in 1..Rows(A) |-> FDiv(SumSeq(A.a[i]), FInt(Cols(A)))])

\* --------------------------------------------------------------- the stages
\* A graph state is one of
\*   [kind |-> "Dense", w |-> Array2 (out x in), b |-> Array1 (out)]
\*   [kind |-> "Linear", graph |-> state, linear |-> "Relu"]
\*   [kind |-> "Tuple2", g0 |-> state, g1 |-> state]
\* and a descriptor has the same three kinds, a dense one holding only its
\* output_size.  A gradient value has the type of the state (back returns Self).
DenseState(w, b) == [kind |-> "Dense", w |-> w, b |-> b]
Linear(graph, linear) == [kind |-> "Linear", graph |-> graph, linear |-> linear]
Tuple2(t, u) == [kind |-> "Tuple2", g0 |-> t, g1 |-> u]
Dense(output_size) == [kind |-> "Dense", output_size |-> output_size]

RECURSIVE Exec(_, _)
RECURSIVE Forward(_, _)
RECURSIVE Back(_, _, _)
RECURSIVE GetOutputShape(_)
RECURSIVE InitWithRandom(_, _, _)

\* impl GraphExec<Array1<F>> and GraphExec<Array2<F>> for DenseState<F>
DenseExec(g, input) ==
    IF input.dim = 1 THEN ArrAdd(Dot(g.w, input), g.b)
    ELSE IF input.dim = 2 THEN ArrAdd(Dot(g.w, input), InsertAxis(g.b, 1))
    ELSE Panicked

\* DenseState::forward: the cache is the input.
DenseForward(g, input) == [state |-> input, output |-> DenseExec(g, input)]

\* A back whose batched weight gradient is the sum over the batch, not the mean.
DenseBackSummed(g, input, d_output) ==
    IF d_output.dim = 1 THEN
        [d_input |-> Dot(Transpose(g.w), d_output),
         grads |-> DenseState(Dot(InsertAxis(d_output, 1), InsertAxis(input, 0)), d_output)]
    ELSE IF d_output.dim = 2 THEN
        [d_input |-> Dot(Transpose(g.w), d_output),
         grads |-> DenseState(Dot(d_output, Transpose(input)), MeanAxis1(d_output))]
    ELSE [d_input |-> Panicked, grads |-> DenseState(Panicked, Panicked)]

\* A back whose weight gradient is X . dY^T (in x out) instead of dY . X^T.
DenseBackTransposed(g, input, d_output) ==
    IF d_output.dim = 1 THEN
        [d_input |-> Dot(Transpose(g.w), d_output),
         grads |-> DenseState(Dot(InsertAxis(input, 1), InsertAxis(d_output, 0)), d_output)]
    ELSE IF d_output.dim = 2 THEN
        [d_input |-> Dot(Transpose(g.w), d_output),
         grads |-> DenseState(ArrDivScalar(Dot(input, Transpose(d_output)),
                                           FInt(Cols(d_output))),
                              MeanAxis1(d_output))]
    ELSE [d_input |-> Panicked, grads |-> DenseState(Panicked, Panicked)]

\* DenseState::back for an unbatched (Array1) and for a batched (Array2) cache.
DenseBack(g, input, d_output) ==
    IF d_output.dim = 1 THEN
        LET di == Dot(Transpose(g.w), d_output)
            db == d_output
            dw == Dot(InsertAxis(d_output, 1), InsertAxis(input, 0))
        IN  [d_input |-> di, grads |-> DenseState(dw, db)]
    ELSE IF d_output.dim = 2 THEN
        LET batch_size == FInt(Cols(d_output))
            di == Dot(Transpose(g.w), d_output)
            db == MeanAxis1(d_output)
            dw == ArrDivScalar(Dot(d_output, Transpose(input)), batch_size)
        IN  [d_input |-> di, grads |-> DenseState(dw, db)]
    ELSE [d_input |-> Panicked, grads |-> DenseState(Panicked, Panicked)]

\* impl GraphExec for Relu
ReluExec(input) == Mapv(input, LAMBDA x : FMax(x, FZero))

\* Relu::forward: the cache is (input, output).
ReluForward(input) ==
    LET output == ReluExec(input)
    IN  [state |-> [input |-> input, output |-> output], output |-> output]

\* Relu::back: output / input * d_output, elementwise.
ReluBack(state, d_output) ==
    [d_input |-> Zip(Zip(state.output, state.input, FDiv), d_output, FMul),
     grads |-> "Relu"]

\* impl GraphExec for Linear<G, L>
LinearExec(g, input) == ReluExec(Exec(g.graph, input))

\* Linear::forward
LinearForward(g, input) ==
    LET r0 == Forward(g.graph, input)
        r1 == ReluForward(r0.output)
    IN  [state |-> [graph |-> r0.state, linear |-> r1.state], output |-> r1.output]

\* Linear::back
LinearBack(g, state, d_output) ==
    LET r1 == ReluBack(state.linear, d_output)
        r0 == Back(g.graph, state.graph, r1.d_input)
    IN  [d_input |-> r0.d_input, grads |-> Linear(r0.grads, r1.grads)]

\* impl GraphExec for Tuple2<G0, G1>
Tuple2Exec(g, input) == Exec(g.g1, Exec(g.g0, input))

\* Tuple2::forward
Tuple2Forward(g, input) ==
    LET r0 == Forward(g.g0, input)
        r1 == Forward(g.g1, r0.output)
    IN  [state |-> [s0 |-> r0.state, s1 |-> r1.state], output |-> r1.output]

\* A back that returns the gradient pair in the order it was computed.
Tuple2BackGradsSwapped(g, state, d_output) ==
    LET r1 == Back(g.g1, state.s1, d_output)
        r0 == Back(g.g0, state.s0, r1.d_input)
    IN  [d_input |-> r0.d_input, grads |-> Tuple2(r1.grads, r0.grads)]

\* A back that hands the first stage the pair's upstream gradient whenever it
\* fits, instead of the gradient the second stage returned.
Tuple2BackUnchained(g, state, d_output) ==
    LET r1 == Back(g.g1, state.s1, d_output)
        r0 == Back(g.g0, state.s0,
                   IF ArrShape(r1.d_input) = ArrShape(d_output) THEN d_output
                   ELSE r1.d_input)
    IN  [d_input |-> r0.d_input, grads |-> Tuple2(r0.grads, r1.grads)]

\* Tuple2::back
Tuple2Back(g, state, d_output) ==
    LET r1 == Back(g.g1, state.s1, d_output)
        r0 == Back(g.g0, state.s0, r1.d_input)
    IN  [d_input |-> r0.d_input, grads |-> Tuple2(r0.grads, r1.grads)]

\* GraphExec::exec, dispatched on the type of the state.
Exec(g, input) ==
    IF g.kind = "Dense" THEN DenseExec(g, input)
    ELSE IF g.kind = "Linear" THEN LinearExec(g, input)
    ELSE Tuple2Exec(g, input)

\* GraphExecTrain::forward
Forward(g, input) ==
    IF g.kind = "Dense" THEN DenseForward(g, input)
    ELSE IF g.kind = "Linear" THEN LinearForward(g, input)
    ELSE Tuple2Forward(g, input)

\* GraphExecTrain::back
Back(g, state, d_output) ==
    IF g.kind = "Dense" THEN DenseBack(g, state, d_output)
    ELSE IF g.kind = "Linear" THEN LinearBack(g, state, d_output)
    ELSE Tuple2Back(g, state, d_output)

\* ------------------------------------------------------------ initialisation
\* The random source: a periodic stream of samples and a position in it.  A
\* sample of the initialiser's distribution is the next value of the stream.
Sample(rng, k) == rng.stream[((rng.pos + k) % Len(rng.stream)) + 1]
Advance(rng, k) == [rng EXCEPT !.pos = (rng.pos + k) % Len(rng.stream)]

\* Dense::get_output_shape
DenseGetOutputShape(d) == d.output_size

\* Dense::init_with_random: w is (output_size, input_size), filled row by row,
\* then b.
DenseInitWithRandom(d, rng, input_size) ==
    LET o == d.output_size
        w == Arr2([i \in 1..o |-> [j \in 1..input_size |->
                     Sample(rng, (i - 1) * input_size + (j - 1))]])
        b == Arr1([i \in 1..o |-> Sample(rng, o * input_size + (i - 1))])
    IN  [state |-> DenseState(w, b), rng |-> Advance(rng, o * input_size + o)]

\* Linear::get_output_shape
LinearGetOutputShape(d) == GetOutputShape(d.graph)

\* Linear::init_with_random
LinearInitWithRandom(d, rng, input_shape) ==
    LET r == InitWithRandom(d.graph, rng, input_shape)
    IN  [state |-> Linear(r.state, d.linear), rng |-> r.rng]

\* Tuple2::get_output_shape
Tuple2GetOutputShape(d) == GetOutputShape(d.g1)

\* An init_with_random that hands the caller's input shape to both stages.
Tuple2InitSameInput(d, rng, input_shape) ==
    LET r0 == InitWithRandom(d.g0, rng, input_shape)
        r1 == InitWithRandom(d.g1, r0.rng, input_shape)
    IN  [state |-> Tuple2(r0.state, r1.state), rng |-> r1.rng]

\* Tuple2::init_with_random
Tuple2InitWithRandom(d, rng, input_shape) ==
    LET s0 == GetOutputShape(d.g0)
        r0 == InitWithRandom(d.g0, rng, input_shape)
        r1 == InitWithRandom(d.g1, r0.rng, s0)
    IN  [state |-> Tuple2(r0.state, r1.state), rng |-> r1.rng]

\* Graph::get_output_shape
GetOutputShape(d) ==
    IF d.kind = "Dense" THEN DenseGetOutputShape(d)
    ELSE IF d.kind = "Linear" THEN LinearGetOutputShape(d)
    ELSE Tuple2GetOutputShape(d)

\* Graph::init_with_random
InitWithRandom(d, rng, input_shape) ==
    IF d.kind = "Dense" THEN DenseInitWithRandom(d, rng, input_shape)
    ELSE IF d.kind = "Linear" THEN LinearInitWithRandom(d, rng, input_shape)
    ELSE Tuple2InitWithRandom(d, rng, input_shape)

\* ------------------------------------------------------ tuple! and net!
\* A macro argument is an expression: [kind |-> "Expr", v |-> i] for the
\* argument written i, or the Tuple2::new(e0, e1) the macro builds.
Expr(i) == [kind |-> "Expr", v |-> i]

RECURSIVE PairUp(_)
\* The repetition $($g0:expr, $g1:expr),* of the matcher: consumes the
\* arguments two at a time and transcribes Tuple2::new($g0, $g1) for each.
PairUp(args) ==
    IF Len(args) < 2 THEN <<>>
    ELSE <<Tuple2(args[1], args[2])>> \o PairUp(SubSeq(args, 3, Len(args)))

\* Rule 1, ($g0:expr): matches exactly one argument.
Rule1Matches(args) == Len(args) = 1
\* Rule 2, ($($g0:expr, $g1:expr),*): matches an even number of arguments.
Rule2Matches(args) == Len(args) % 2 = 0
\* Rule 3, ($g:expr, $($g0:expr, $g1:expr),*): one argument, a comma, and an
\* even number of arguments.
Rule3Matches(args) == Len(args) >= 1 /\ Len(args) % 2 = 1

\* The arguments of the recursive invocation rule 2 transcribes.
Rule2Expand(args) == PairUp(args)

\* A rule 3 that keeps the last argument alone instead of the first.
Rule3ExpandLastAlone(args) ==
    PairUp(SubSeq(args, 1, Len(args) - 1)) \o <<args[Len(args)]>>

\* The arguments of the recursive invocation rule 3 transcribes.
Rule3Expand(args) == <<args[1]>> \o PairUp(Tail(args))

\* ------------------------------------------------------------------- state
VARIABLES
    macro,      \* the macro invocation being expanded
    desc,       \* the descriptor the caller built
    graph,      \* the initialised graph state (the trainer's graph once it trains)
    rng,        \* the random source handed to init_with_random
    input_size, \* the input size the caller initialised the graph with
    pc,         \* "new" before initialisation, "ready" after, "training"
    call,       \* the last call made on the graph and what it returned
    trainer,    \* the Train value: optimiser, regularisation, dropout
    data,       \* the caller's training batch: input and expected output
    trains      \* the number of train calls made

vars == <<macro, desc, graph, rng, input_size, pc, call, trainer, data, trains>>

trainVars == <<trainer, data, trains>>

NoMacro == [pc |-> "idle", args |-> <<>>, args0 |-> <<>>, prev |-> <<>>,
            passes |-> 0, result |-> Expr(0)]
NoGraph == [kind |-> "None"]
NoRng == [stream |-> <<FZero>>, pos |-> 0]
NoCall == [op |-> "none"]
NoTrainer == [kind |-> "None"]
NoData == [kind |-> "None"]

\* --------------------------------------------------- the macro, step by step
\* The argument lists: n arguments, the i-th written i-1 or 10+i-1.
MacroArgs ==
    UNION {{[i \in 1..n |-> Expr(IF i \in hi THEN 10 + i - 1 ELSE i - 1)] :
                hi \in SUBSET (1..n)} : n \in 1..MaxArgs}

MacroInit ==
    /\ \E args \in MacroArgs :
          macro = [pc |-> "expand", args |-> args, args0 |-> args, prev |-> args,
                   passes |-> 0, result |-> Expr(0)]
    /\ desc = NoGraph /\ graph = NoGraph /\ rng = NoRng /\ input_size = 0
    /\ pc = "new" /\ call = NoCall
    /\ trainer = NoTrainer /\ data = NoData /\ trains = 0

\* Rules are tried in order; the first that matches is transcribed.
MacroRule1 ==
    /\ macro.pc = "expand"
    /\ Rule1Matches(macro.args)
    /\ macro' = [macro EXCEPT !.pc = "done", !.result = macro.args[1]]
    /\ UNCHANGED <<desc, graph, rng, input_size, pc, call, trainVars>>

MacroRule2 ==
    /\ macro.pc = "expand"
    /\ ~Rule1Matches(macro.args)
    /\ Rule2Matches(macro.args)
    /\ macro' = [macro EXCEPT !.args = Rule2Expand(macro.args), !.prev = macro.args,
                              !.passes = macro.passes + 1]
    /\ UNCHANGED <<desc, graph, rng, input_size, pc, call, trainVars>>

MacroRule3 ==
    /\ macro.pc = "expand"
    /\ ~Rule1Matches(macro.args)
    /\ ~Rule2Matches(macro.args)
    /\ Rule3Matches(macro.args)
    /\ macro' = [macro EXCEPT !.args = Rule3Expand(macro.args), !.prev = macro.args,
                              !.passes = macro.passes + 1]
    /\ UNCHANGED <<desc, graph, rng, input_size, pc, call, trainVars>>

MacroNext == MacroRule1 \/ MacroRule2 \/ MacroRule3

SpecMacro == MacroInit /\ [][MacroNext]_vars

\* ------------------------------------------------------------ C3
RECURSIVE Leaves(_)
\* The leaf expressions of a nested pair, left to right.
Leaves(e) == IF e.kind = "Tuple2" THEN Leaves(e.g0) \o Leaves(e.g1) ELSE <<e>>

RECURSIVE LeavesOfAll(_)
LeavesOfAll(es) == IF es = <<>> THEN <<>> ELSE Leaves(es[1]) \o LeavesOfAll(Tail(es))

RECURSIVE CeilHalves(_, _)
\* n halved, rounding up, k times.
CeilHalves(n, k) == IF k = 0 THEN n ELSE CeilHalves((n + 1) \div 2, k - 1)

Numbered(n) == [i \in 1..n |-> Expr(i - 1)]
T2(a, b) == Tuple2(a, b)
E(i) == Expr(i)

\* C3: for n >= 1 arguments the macro ends (some rule matches every argument
\* list it reaches, and the list shrinks to ceil(n/2) in every pass), every
\* pass pairs adjacent arguments (an odd list keeps its first argument alone),
\* and the result's leaves are the arguments in order; 1, 6, 7 and 8 arguments
\* give the trees of test_tuple_macro.
C3_MacroTree ==
    macro.pc # "idle" =>
      LET n == Len(macro.args0)
          p == macro.prev
          a == macro.args
      IN  /\ Len(a) = CeilHalves(n, macro.passes)
          /\ Len(a) >= 1
          /\ macro.pc = "expand" =>
                Rule1Matches(a) \/ Rule2Matches(a) \/ Rule3Matches(a)
          /\ LeavesOfAll(a) = macro.args0
          /\ macro.passes > 0 =>
                /\ Len(a) = (Len(p) + 1) \div 2
                /\ Len(p) % 2 = 0 =>
                      \A i \in 1..Len(a) : a[i] = T2(p[2 * i - 1], p[2 * i])
                /\ Len(p) % 2 = 1 =>
                      /\ a[1] = p[1]
                      /\ \A i \in 2..Len(a) : a[i] = T2(p[2 * i - 2], p[2 * i - 1])
          /\ macro.pc = "done" =>
                /\ Leaves(macro.result) = macro.args0
                /\ n = 1 => macro.result = macro.args0[1]
                /\ macro.args0 = Numbered(8) =>
                      macro.result = T2(T2(T2(E(0), E(1)), T2(E(2), E(3))),
                                        T2(T2(E(4), E(5)), T2(E(6), E(7))))
                /\ macro.args0 = Numbered(7) =>
                      macro.result = T2(T2(E(0), T2(E(1), E(2))),
                                        T2(T2(E(3), E(4)), T2(E(5), E(6))))
                /\ macro.args0 = Numbered(6) =>
                      macro.result = T2(T2(E(0), E(1)),
                                        T2(T2(E(2), E(3)), T2(E(4), E(5))))

\* The 7-argument invocation of the test has been expanded to its result.
C3_Witness ==
    /\ macro.pc = "done"
    /\ macro.args0 = Numbered(7)
    /\ macro.passes = 3

\* ------------------------------------------------- the graph, call by call
\* The streams the random source may produce, and the streams input tensors
\* and upstream gradients are filled from (row by row, repeating).
RngStreams == {<<FInt(1), FInt(-1)>>, <<FInt(2), FInt(1), FInt(-1)>>}
DataStreams == {<<FInt(1), FInt(-2)>>, <<FInt(0), FInt(3), FInt(-1)>>}

\* The array of a shape (<<k>> or <<r, c>>) filled from a stream.
FillArr(shape, stream) ==
    IF Len(shape) = 1 THEN
        Arr1([i \in 1..shape[1] |-> stream[((i - 1) % Len(stream)) + 1]])
    ELSE
        Arr2([i \in 1..shape[1] |-> [j \in 1..shape[2] |->
                 stream[(((i - 1) * shape[2] + (j - 1)) % Len(stream)) + 1]]])

\* Leaf descriptors: Dense::new(k, i) and Dense::new(k, i).with_activation(Relu).
LeafDescs ==
    {Dense(k) : k \in 1..MaxSize} \cup {Linear(Dense(k), "Relu") : k \in 1..MaxSize}

\* Chains of one, two and three leaves, a chain of three in both groupings;
\* the leaves of one chain are all plain or all wrapped in the activation.
ChainDescs(L) ==
    L \cup {Tuple2(a, b) : a \in L, b \in L}
      \cup {Tuple2(Tuple2(a, b), c) : a \in L, b \in L, c \in L}
      \cup {Tuple2(a, Tuple2(b, c)) : a \in L, b \in L, c \in L}

GraphDescs ==
    ChainDescs({Dense(k) : k \in 1..MaxSize})
      \cup ChainDescs({Linear(Dense(k), "Relu") : k \in 1..MaxSize})

RECURSIVE InputSize(_)
\* The input size a state was initialised with: the columns of its first w.
InputSize(g) ==
    IF g.kind = "Dense" THEN Cols(g.w)
    ELSE IF g.kind = "Linear" THEN InputSize(g.graph)
    ELSE InputSize(g.g0)

\* The inputs a caller may hand to a graph: one example (Array1) or a batch
\* of n examples, one per column (Array2).
Inputs1For(g) == {FillArr(<<InputSize(g)>>, ds) : ds \in DataStreams}
Inputs2For(g) ==
    {FillArr(<<InputSize(g), n>>, ds) : ds \in DataStreams, n \in 1..MaxBatch}

\* The upstream gradients of the shape of an output.
GradientsLike(output) == {FillArr(ArrShape(output), ds) : ds \in DataStreams}

GraphInit ==
    /\ desc \in GraphDescs
    /\ \E st \in RngStreams : rng = [stream |-> st, pos |-> 0]
    /\ graph = NoGraph
    /\ pc = "new"
    /\ input_size = 0
    /\ call = NoCall
    /\ macro = NoMacro
    /\ trainer = NoTrainer /\ data = NoData /\ trains = 0

\* Graph::init_with_random(rng, input_size)
DoInit ==
    /\ pc = "new"
    /\ \E n \in 1..MaxSize :
          LET r == InitWithRandom(desc, rng, n)
          IN  /\ graph' = r.state
              /\ rng' = r.rng
              /\ input_size' = n
    /\ pc' = "ready"
    /\ UNCHANGED <<macro, desc, call, trainVars>>

ExecCall(input) ==
    call' = [op |-> "exec", input |-> input, output |-> Exec(graph, input)]

\* GraphExec::exec(&input)
DoExec ==
    /\ pc = "ready"
    /\ call.op = "none"
    /\ \/ \E input \in Inputs1For(graph) : ExecCall(input)
       \/ \E input \in Inputs2For(graph) : ExecCall(input)
    /\ UNCHANGED <<macro, desc, graph, rng, input_size, pc, trainVars>>

ForwardCall(input) ==
    LET r == Forward(graph, input)
    IN  call' = [op |-> "forward", input |-> input, state |-> r.state,
                 output |-> r.output]

\* GraphExecTrain::forward(&input)
DoForward ==
    /\ pc = "ready"
    /\ call.op = "none"
    /\ \/ \E input \in Inputs1For(graph) : ForwardCall(input)
       \/ \E input \in Inputs2For(graph) : ForwardCall(input)
    /\ UNCHANGED <<macro, desc, graph, rng, input_size, pc, trainVars>>

\* GraphExecTrain::back(state, d_output), on the cache of the forward before it.
DoBack ==
    /\ pc = "ready"
    /\ call.op = "forward"
    /\ \E d_output \in GradientsLike(call.output) :
          LET r == Back(graph, call.state, d_output)
          IN  call' = [op |-> "back", input |-> call.input, state |-> call.state,
                       output |-> call.output, d_output |-> d_output,
                       d_input |-> r.d_input, grads |-> r.grads]
    /\ UNCHANGED <<macro, desc, graph, rng, input_size, pc, trainVars>>

GraphNext == DoInit \/ DoExec \/ DoForward \/ DoBack

SpecGraph == GraphInit /\ [][GraphNext]_vars

\* ------------------------------------ Mappable and Shaped: the containers
\* A closure handed to map / map_mut_with is a record naming its body and
\* holding what it captured; the bodies are the operators below.

\* SGD::optimise (optimise/sgd.rs): |theta, &g| *theta = *theta - g * self.0
SGDClosure(theta, g, alpha) == FSub(theta, FMul(g, alpha))

\* Adam::optimise: |m, &g| *m = *m * b1 + g * (one - b1)
AdamMClosure(m, g, b1) == FAdd(FMul(m, b1), FMul(g, FSub(FOne, b1)))

\* Adam::optimise: |v, &g| *v = *v * b2 + g * g * (one - b2)
AdamVClosure(v, g, b2) == FAdd(FMul(v, b2), FMul(FMul(g, g), FSub(FOne, b2)))

\* Adam::optimise: |&m| m / (one - b.powi(self.t)), for b1 and for b2
AdamBiasClosure(m, b, t) == FDiv(m, FSub(FOne, FPowi(b, t)))

\* Adam::optimise: |m, &v| *m = *m * a / (v.sqrt() + e)
AdamStepClosure(m, v, a, e) == FDiv(FMul(m, a), FAdd(FSqrt(v), e))

\* Adam::optimise: |g, &m| *g = *g - m
AdamSubClosure(g, m) == FSub(g, m)

\* A mask that also drops the element whose draw equals the rate.
DropoutClosureInclusive(g, d, dropout, a) ==
    IF FLt(d, dropout) \/ d = dropout THEN FZero ELSE FMul(g, a)

\* Train::train: |g, &d| if d < self.dropout { *g = zero } else { *g = *g * a }
DropoutClosure(g, d, dropout, a) == IF FLt(d, dropout) THEN FZero ELSE FMul(g, a)

\* Regularisation::apply, L1: *g = *g + x.signum() * a
L1Closure(g, x, a) == FAdd(g, FMul(FSignum(x), a))

\* Regularisation::apply, L2: *g = *g + (x + x) * a
L2Closure(g, x, a) == FAdd(g, FMul(FAdd(x, x), a))

\* Regularisation::apply, L1_2: *g = *g + x.signum() * a + (x + x) * b
L12Closure(g, x, a, b) == FAdd(FAdd(g, FMul(FSignum(x), a)), FMul(FAdd(x, x), b))

\* Calling a closure of map (one argument).
Apply1(f, x) ==
    IF f.op = "adam_bias" THEN AdamBiasClosure(x, f.b, f.t)
    ELSE x

\* Calling a closure of map_mut_with (the element and the other's element).
Apply2(f, x, y) ==
    IF f.op = "sgd" THEN SGDClosure(x, y, f.alpha)
    ELSE IF f.op = "adam_m" THEN AdamMClosure(x, y, f.b1)
    ELSE IF f.op = "adam_v" THEN AdamVClosure(x, y, f.b2)
    ELSE IF f.op = "adam_step" THEN AdamStepClosure(x, y, f.a, f.e)
    ELSE IF f.op = "adam_sub" THEN AdamSubClosure(x, y)
    ELSE IF f.op = "dropout" THEN DropoutClosure(x, y, f.dropout, f.a)
    ELSE IF f.op = "L1" THEN L1Closure(x, y, f.a)
    ELSE IF f.op = "L2" THEN L2Closure(x, y, f.a)
    ELSE IF f.op = "L1_2" THEN L12Closure(x, y, f.a, f.b)
    ELSE x

\* A container an operation panicked on (the shapes of its operands differ).
PanickedGraph == [kind |-> "Panicked"]

RECURSIVE Map(_, _)
RECURSIVE MapMutWith(_, _, _)
RECURSIVE Shape(_)
RECURSIVE Zero(_)
RECURSIVE Iter(_, _)

\* impl Mappable for DenseState: map, w then b
DenseMap(g, f) ==
    DenseState(Mapv(g.w, LAMBDA x : Apply1(f, x)), Mapv(g.b, LAMBDA x : Apply1(f, x)))

\* impl Mappable for DenseState: map_mut_with, w.zip_mut_with then b.zip_mut_with
DenseMapMutWith(g, rhs, f) ==
    DenseState(Zip(g.w, rhs.w, LAMBDA x, y : Apply2(f, x, y)),
               Zip(g.b, rhs.b, LAMBDA x, y : Apply2(f, x, y)))

\* impl Mappable for (T, U): map
PairMap(g, f) == Tuple2(Map(g.g0, f), Map(g.g1, f))

\* impl Mappable for (T, U): map_mut_with
PairMapMutWith(g, rhs, f) ==
    Tuple2(MapMutWith(g.g0, rhs.g0, f), MapMutWith(g.g1, rhs.g1, f))

\* Mappable for Linear<G, L>: the wrapped graph's, the activation kept.
LinearMap(g, f) == Linear(Map(g.graph, f), g.linear)

LinearMapMutWith(g, rhs, f) == Linear(MapMutWith(g.graph, rhs.graph, f), g.linear)

\* Mappable::map
Map(g, f) ==
    IF g.kind = "Dense" THEN DenseMap(g, f)
    ELSE IF g.kind = "Linear" THEN LinearMap(g, f)
    ELSE IF g.kind = "Tuple2" THEN PairMap(g, f)
    ELSE PanickedGraph

\* Mappable::map_mut_with (and map_mut, on the value it leaves in place)
MapMutWith(g, rhs, f) ==
    IF g.kind # rhs.kind THEN PanickedGraph
    ELSE IF g.kind = "Dense" THEN DenseMapMutWith(g, rhs, f)
    ELSE IF g.kind = "Linear" THEN LinearMapMutWith(g, rhs, f)
    ELSE IF g.kind = "Tuple2" THEN PairMapMutWith(g, rhs, f)
    ELSE PanickedGraph

\* Shaped for DenseState: the shape is the dimension of w, (out, in).
DenseShape(g) == [kind |-> "Dense", dim |-> ArrShape(g.w)]

\* Shaped for DenseState: zero(shape), w of the shape and b of its rows.
DenseZero(shape) ==
    DenseState(Arr2([i \in 1..shape.dim[1] |-> [j \in 1..shape.dim[2] |-> FZero]]),
               Arr1([i \in 1..shape.dim[1] |-> FZero]))

\* Shaped for DenseState: iter(shape, i), the weights row by row, then the bias.
DenseIter(shape, it) ==
    LET o == shape.dim[1]
        k == shape.dim[2]
    IN  [state |-> DenseState(
                     Arr2([i \in 1..o |-> [j \in 1..k |-> Sample(it, (i - 1) * k + (j - 1))]]),
                     Arr1([i \in 1..o |-> Sample(it, o * k + (i - 1))])),
         it |-> Advance(it, o * k + o)]

\* Shaped for Linear<G, L>: the wrapped graph's.
LinearShape(g) == [kind |-> "Linear", graph |-> Shape(g.graph), linear |-> g.linear]

LinearZero(shape) == Linear(Zero(shape.graph), shape.linear)

LinearIter(shape, it) ==
    LET r == Iter(shape.graph, it)
    IN  [state |-> Linear(r.state, shape.linear), it |-> r.it]

\* impl Shaped for (T, U): shape
PairShape(g) == [kind |-> "Tuple2", g0 |-> Shape(g.g0), g1 |-> Shape(g.g1)]

\* A zero that builds the children from each other's shape.
PairZeroSwapped(shape) == Tuple2(Zero(shape.g1), Zero(shape.g0))

\* impl Shaped for (T, U): zero
PairZero(shape) == Tuple2(Zero(shape.g0), Zero(shape.g1))

\* An iter whose second child draws from the start of the sequence again.
PairIterRestarted(shape, it) ==
    [state |-> Tuple2(Iter(shape.g0, it).state, Iter(shape.g1, it).state),
     it |-> Iter(shape.g1, it).it]

\* impl Shaped for (T, U): iter, both children drawing from the one iterator
PairIter(shape, it) ==
    LET r0 == Iter(shape.g0, it)
        r1 == Iter(shape.g1, r0.it)
    IN  [state |-> Tuple2(r0.state, r1.state), it |-> r1.it]

\* Shaped::shape
Shape(g) ==
    IF g.kind = "Dense" THEN DenseShape(g)
    ELSE IF g.kind = "Linear" THEN LinearShape(g)
    ELSE PairShape(g)

\* Shaped::zero
Zero(shape) ==
    IF shape.kind = "Dense" THEN DenseZero(shape)
    ELSE IF shape.kind = "Linear" THEN LinearZero(shape)
    ELSE PairZero(shape)

\* Shaped::iter
Iter(shape, it) ==
    IF shape.kind = "Dense" THEN DenseIter(shape, it)
    ELSE IF shape.kind = "Linear" THEN LinearIter(shape, it)
    ELSE PairIter(shape, it)

RECURSIVE GraphMulScalar(_, _)
\* impl Mul<S> for Tuple2, Linear and DenseState: every element times rhs.
GraphMulScalar(g, rhs) ==
    IF g.kind = "Dense" THEN
        DenseState(Mapv(g.w, LAMBDA x : FMul(x, rhs)), Mapv(g.b, LAMBDA x : FMul(x, rhs)))
    ELSE IF g.kind = "Linear" THEN Linear(GraphMulScalar(g.graph, rhs), g.linear)
    ELSE IF g.kind = "Tuple2" THEN
        Tuple2(GraphMulScalar(g.g0, rhs), GraphMulScalar(g.g1, rhs))
    ELSE PanickedGraph

RECURSIVE GraphAddAssign(_, _)
\* impl AddAssign for Tuple2, Linear and DenseState: self += rhs, elementwise.
GraphAddAssign(g, rhs) ==
    IF g.kind # rhs.kind THEN PanickedGraph
    ELSE IF g.kind = "Dense" THEN
        DenseState(Zip(g.w, rhs.w, FAdd), Zip(g.b, rhs.b, FAdd))
    ELSE IF g.kind = "Linear" THEN Linear(GraphAddAssign(g.graph, rhs.graph), g.linear)
    ELSE IF g.kind = "Tuple2" THEN
        Tuple2(GraphAddAssign(g.g0, rhs.g0), GraphAddAssign(g.g1, rhs.g1))
    ELSE PanickedGraph

\* ------------------------------------------------------------------- cost
\* MSE::cost for Array1 (diff . diff) and for Array2 (the mean of every
\* element of diff^T . diff).
MSECost(output, expected) ==
    LET diff == Zip(output, expected, FSub)
    IN  IF diff.dim = 1 THEN VDot(diff.a, diff.a)
        ELSE IF diff.dim = 2 THEN
            LET m == Dot(Transpose(diff), diff)
            IN  FDiv(SumSeq([i \in 1..Rows(m) |-> SumSeq(m.a[i])]),
                     FInt(Rows(m) * Cols(m)))
        ELSE NaN

\* MSE::diff: (input - expected) * two
MSEDiff(output, expected) ==
    Mapv(Zip(output, expected, FSub), LAMBDA x : FMul(x, FAdd(FOne, FOne)))

\* GraphExecTrain::get_grads
GetGrads(g, input, expected) ==
    LET f == Forward(g, input)
        d_output == MSEDiff(f.output, expected)
    IN  [grads |-> Back(g, f.state, d_output).grads,
         cost |-> MSECost(f.output, expected),
         output |-> f.output]

\* ------------------------------------------------------------- optimisers
\* SGD::new (both revisions)
SGDNew(kind, alpha) == [kind |-> kind, alpha |-> alpha]

\* impl Optimiser for SGD, optimise/sgd.rs: theta - g * alpha through map_mut_with
SGDOptimise(opt, g, grads) ==
    [optimiser |-> opt,
     graph |-> MapMutWith(g, grads, [op |-> "sgd", alpha |-> opt.alpha])]

\* impl Optimiser for SGD, optimise.rs: *graph += grads * self.0.clone()
SGD0Optimise(opt, g, grads) ==
    [optimiser |-> opt,
     graph |-> GraphAddAssign(g, GraphMulScalar(grads, opt.alpha))]

\* Adam::new
AdamNew(alpha, beta1, beta2, epsilon, shape) ==
    LET zero == Zero(shape)
    IN  [kind |-> "Adam", alpha |-> alpha, beta1 |-> beta1, beta2 |-> beta2,
         epsilon |-> epsilon, m |-> zero, v |-> zero, t |-> 0]

\* An optimise that computes the bias corrections before it counts the step.
AdamOptimiseLateCount(opt, g, grads) ==
    LET m == MapMutWith(opt.m, grads, [op |-> "adam_m", b1 |-> opt.beta1])
        v == MapMutWith(opt.v, grads, [op |-> "adam_v", b2 |-> opt.beta2])
        mb0 == Map(m, [op |-> "adam_bias", b |-> opt.beta1, t |-> opt.t])
        vb == Map(v, [op |-> "adam_bias", b |-> opt.beta2, t |-> opt.t])
        mb == MapMutWith(mb0, vb, [op |-> "adam_step", a |-> opt.alpha, e |-> opt.epsilon])
    IN  [optimiser |-> [opt EXCEPT !.t = opt.t + 1, !.m = m, !.v = v],
         graph |-> MapMutWith(g, mb, [op |-> "adam_sub"])]

\* impl Optimiser for Adam
AdamOptimise(opt, g, grads) ==
    LET t == opt.t + 1
        m == MapMutWith(opt.m, grads, [op |-> "adam_m", b1 |-> opt.beta1])
        v == MapMutWith(opt.v, grads, [op |-> "adam_v", b2 |-> opt.beta2])
        mb0 == Map(m, [op |-> "adam_bias", b |-> opt.beta1, t |-> t])
        vb == Map(v, [op |-> "adam_bias", b |-> opt.beta2, t |-> t])
        mb == MapMutWith(mb0, vb, [op |-> "adam_step", a |-> opt.alpha, e |-> opt.epsilon])
    IN  [optimiser |-> [opt EXCEPT !.t = t, !.m = m, !.v = v],
         graph |-> MapMutWith(g, mb, [op |-> "adam_sub"])]

\* Optimiser::optimise, dispatched on the optimiser's type.
Optimise(opt, g, grads) ==
    IF opt.kind = "SGD" THEN SGDOptimise(opt, g, grads)
    ELSE IF opt.kind = "SGD0" THEN SGD0Optimise(opt, g, grads)
    ELSE AdamOptimise(opt, g, grads)

\* ---------------------------------------------------------------- training
NoReg == [kind |-> "None"]
L1(a) == [kind |-> "L1", a |-> a]
L2(a) == [kind |-> "L2", a |-> a]
L1_2(a, b) == [kind |-> "L1_2", a |-> a, b |-> b]

\* An apply whose closures read the gradient where they should read the
\* parameter.
RegularisationApplyOnGrads(r, grads, g) ==
    [grads |-> MapMutWith(grads, grads,
                          IF r.kind = "L1_2" THEN [op |-> "L1_2", a |-> r.a, b |-> r.b]
                          ELSE [op |-> r.kind, a |-> r.a]),
     cost |-> FZero]

\* Regularisation::apply: the closure is a `move` closure, so it works on its
\* own copy of `cost`; the function returns the `cost` it declared.
RegularisationApply(r, grads, g) ==
    LET cost == FZero
        closure == IF r.kind = "L1" THEN [op |-> "L1", a |-> r.a, cost |-> cost]
                   ELSE IF r.kind = "L2" THEN [op |-> "L2", a |-> r.a, cost |-> cost]
                   ELSE [op |-> "L1_2", a |-> r.a, b |-> r.b, cost |-> cost]
    IN  [grads |-> MapMutWith(grads, g, closure), cost |-> cost]

\* (zero..one).contains(&self.dropout)
DropoutConfigured(dropout) ==
    /\ ~IsNaN(dropout)
    /\ ~FLt(dropout, FZero)
    /\ FLt(dropout, FOne)

\* The closure of both map_mut_with calls of the dropout branches, with
\* a = one / (one - self.dropout).
DropoutMask(tr) ==
    [op |-> "dropout", dropout |-> tr.dropout,
     a |-> FDiv(FOne, FSub(FOne, tr.dropout))]

\* An end of train whose optimiser steps from the masked clone.
TrainOptimiseFromMasked(tr, g, dropouts, masked, raw, masked_grads, grads, cost) ==
    LET o == Optimise(tr.optimiser, IF dropouts.kind # "None" THEN masked ELSE g, grads)
    IN  [graph |-> o.graph, optimiser |-> o.optimiser, cost |-> cost,
         dropping |-> dropouts.kind # "None", dropouts |-> dropouts,
         masked |-> masked, used |-> g, raw |-> raw,
         masked_grads |-> masked_grads, grads |-> grads]

\* An end of train that takes the optimiser's step twice.
TrainOptimiseTwice(tr, g, dropouts, masked, raw, masked_grads, grads, cost) ==
    LET o == Optimise(Optimise(tr.optimiser, g, grads).optimiser,
                      Optimise(tr.optimiser, g, grads).graph, grads)
    IN  [graph |-> o.graph, optimiser |-> o.optimiser, cost |-> cost,
         dropping |-> dropouts.kind # "None", dropouts |-> dropouts,
         masked |-> masked, used |-> g, raw |-> raw,
         masked_grads |-> masked_grads, grads |-> grads]

\* Train::train, the end: self.optimiser.optimise(&mut self.graph, grads); cost
TrainOptimise(tr, g, dropouts, masked, raw, masked_grads, grads, cost) ==
    LET o == Optimise(tr.optimiser, g, grads)
    IN  [graph |-> o.graph, optimiser |-> o.optimiser, cost |-> cost,
         dropping |-> dropouts.kind # "None", dropouts |-> dropouts,
         masked |-> masked, used |-> g, raw |-> raw,
         masked_grads |-> masked_grads, grads |-> grads]

\* Train::train: if let Some(r) = self.regularisation { cost = cost + r.apply(..) }
TrainRegularise(tr, g, dropouts, masked, raw, grads) ==
    IF tr.regularisation.kind = "None"
    THEN TrainOptimise(tr, g, dropouts, masked, raw, grads, grads, raw.cost)
    ELSE TrainOptimise(tr, g, dropouts, masked, raw, grads,
                       RegularisationApply(tr.regularisation, grads, g).grads,
                       FAdd(raw.cost, RegularisationApply(tr.regularisation, grads, g).cost))

\* A train that hands the gradients on as get_grads returned them.
TrainGradsUnmasked(tr, g, dropouts, masked, raw) ==
    TrainRegularise(tr, g, dropouts, masked, raw, raw.grads)

\* Train::train: the second dropout branch, the gradients masked like the
\* parameters.
TrainMaskGrads(tr, g, dropouts, masked, raw) ==
    TrainRegularise(tr, g, dropouts, masked, raw,
                    IF dropouts.kind # "None"
                    THEN MapMutWith(raw.grads, dropouts, DropoutMask(tr))
                    ELSE raw.grads)

\* Train::train: let (mut grads, mut cost) = self.graph.get_grads(input, expected, &self.cost)
\* The masked clone `graph` is built and left aside: the gradients come from
\* self.graph.
TrainGetGrads(tr, g, input, expected, dropouts) ==
    TrainMaskGrads(tr, g, dropouts,
                   IF dropouts.kind # "None"
                   THEN MapMutWith(g, dropouts, DropoutMask(tr))
                   ELSE NoGraph,
                   GetGrads(g, input, expected))

\* Train::train of train.rs.  `it` is the stream of uniform draws the mask is
\* built from.  The result records every value the function computes.
TrainTrain(tr, g, input, expected, it) ==
    TrainGetGrads(tr, g, input, expected,
                  IF DropoutConfigured(tr.dropout) THEN Iter(Shape(g), it).state
                  ELSE NoGraph)

\* A train of lib.rs whose cost is that of the graph the optimiser left.
TrainTrain0CostAfter(tr, g, input, expected) ==
    TrainOptimise(tr, g, NoGraph, NoGraph, GetGrads(g, input, expected),
                  GetGrads(g, input, expected).grads,
                  GetGrads(g, input, expected).grads,
                  MSECost(Exec(Optimise(tr.optimiser, g,
                                        GetGrads(g, input, expected).grads).graph,
                               input),
                          expected))

\* Train::train of lib.rs: forward, C::diff, back, optimise, C::cost.
TrainTrain0(tr, g, input, expected) ==
    TrainOptimise(tr, g, NoGraph, NoGraph, GetGrads(g, input, expected),
                  GetGrads(g, input, expected).grads,
                  GetGrads(g, input, expected).grads,
                  GetGrads(g, input, expected).cost)

Half == Rat(1, 2)
Quarter == Rat(1, 4)
Eighth == Rat(1, 8)

\* The trainers a caller builds.  train is "lib" for Train of lib.rs (with the
\* SGD of optimise.rs) and "train" for Train of train.rs; a dropout of 1 is
\* outside [0, 1): no dropout.  beta1 and beta2 are Adam's.
TrainerConfigs ==
    {[train |-> "lib", opt |-> "SGD0", dropout |-> FOne, reg |-> NoReg, beta1 |-> FZero, beta2 |-> FZero],
     [train |-> "train", opt |-> "SGD", dropout |-> FOne, reg |-> NoReg, beta1 |-> FZero, beta2 |-> FZero],
     [train |-> "train", opt |-> "SGD", dropout |-> Half, reg |-> NoReg, beta1 |-> FZero, beta2 |-> FZero],
     [train |-> "train", opt |-> "SGD", dropout |-> FOne, reg |-> L1(Half), beta1 |-> FZero, beta2 |-> FZero],
     [train |-> "train", opt |-> "SGD", dropout |-> Half, reg |-> L1_2(Half, FOne), beta1 |-> FZero, beta2 |-> FZero],
     [train |-> "train", opt |-> "Adam", dropout |-> FOne, reg |-> NoReg, beta1 |-> Half, beta2 |-> Quarter],
     [train |-> "train", opt |-> "Adam", dropout |-> FOne, reg |-> NoReg, beta1 |-> FZero, beta2 |-> FZero],
     [train |-> "train", opt |-> "Adam", dropout |-> Half, reg |-> L2(Half), beta1 |-> Half, beta2 |-> Half],
     [train |-> "train", opt |-> "SGD", dropout |-> FZero, reg |-> NoReg, beta1 |-> FZero, beta2 |-> FZero],
     [train |-> "train", opt |-> "Adam", dropout |-> FZero, reg |-> L1(Half), beta1 |-> Half, beta2 |-> Half],
     [train |-> "train", opt |-> "Adam", dropout |-> Half, reg |-> NoReg, beta1 |-> Half, beta2 |-> Half]}

\* The uniform draws of [0, 1] a mask is built from.
MaskStreams == {<<Quarter, Rat(3, 4)>>, <<FOne, FZero, Half>>}

\* The draws a train call consumes: none when dropout is off.
MasksFor(tr) ==
    IF DropoutConfigured(tr.dropout) THEN MaskStreams ELSE {<<FOne>>}

\* The graphs that are trained: one dense stage, a chain of two, and an
\* activated stage after a dense one.
TrainDescs ==
    {Dense(1), Dense(MaxSize)}
      \cup {Tuple2(Dense(j), Dense(MaxSize)) : j \in 1..MaxSize}
      \cup {Tuple2(Dense(MaxSize), Linear(Dense(1), "Relu"))}

TrainStreams == {<<FInt(1), FInt(-1)>>}

TrainInit ==
    /\ desc \in TrainDescs
    /\ \E st \in TrainStreams : rng = [stream |-> st, pos |-> 0]
    /\ graph = NoGraph
    /\ pc = "new"
    /\ input_size = 0
    /\ call = NoCall
    /\ macro = NoMacro
    /\ trainer = NoTrainer /\ data = NoData /\ trains = 0

\* The values the training inputs are filled with.
TrainData == <<FInt(1), FInt(-1), FInt(0)>>

\* The optimiser a configuration constructs for a graph: SGD::new(alpha) or
\* Adam::new(alpha, beta1, beta2, epsilon, graph.shape()).
NewOptimiser(cfg, g) ==
    IF cfg.opt = "Adam" THEN AdamNew(Eighth, cfg.beta1, cfg.beta2, Quarter, Shape(g))
    ELSE SGDNew(cfg.opt, Eighth)

NewTrainerWith(cfg, input) ==
    /\ trainer' = [train |-> cfg.train, optimiser |-> NewOptimiser(cfg, graph),
                   regularisation |-> cfg.reg, dropout |-> cfg.dropout]
    /\ data' = [input |-> input,
                expected |-> FillArr(ArrShape(Exec(graph, input)), <<FInt(0), FInt(1)>>)]

\* Train { graph, optimiser, cost, regularisation, dropout } (Train::new in
\* lib.rs), and the batch the caller trains on.
NewTrainer ==
    /\ pc = "ready"
    /\ \E cfg \in TrainerConfigs :
          \/ NewTrainerWith(cfg, FillArr(<<input_size>>, TrainData))
          \/ NewTrainerWith(cfg, FillArr(<<input_size, MaxBatch>>, TrainData))
    /\ pc' = "training"
    /\ UNCHANGED <<macro, desc, graph, rng, input_size, call, trains>>

\* A train call: the trained graph and the optimiser are stored, and `call`
\* keeps what the call computed.
TrainStep(r) ==
    /\ graph' = r.graph
    /\ trainer' = [trainer EXCEPT !.optimiser = r.optimiser]
    /\ call' = [op |-> "train", input |-> data.input, expected |-> data.expected,
                before |-> graph, optimiser_before |-> trainer.optimiser,
                cost |-> r.cost, dropping |-> r.dropping, dropouts |-> r.dropouts,
                masked |-> r.masked, used |-> r.used, raw |-> r.raw,
                masked_grads |-> r.masked_grads, grads |-> r.grads]

\* Train::train(input, expected) of train.rs
DoTrain ==
    /\ pc = "training"
    /\ trainer.train = "train"
    /\ trains < MaxTrain
    /\ \E ms \in MasksFor(trainer) :
          TrainStep(TrainTrain(trainer, graph, data.input, data.expected,
                               [stream |-> ms, pos |-> 0]))
    /\ trains' = trains + 1
    /\ UNCHANGED <<macro, desc, rng, input_size, pc, data>>

\* Train::train(&input, &expected) of lib.rs
DoTrain0 ==
    /\ pc = "training"
    /\ trainer.train = "lib"
    /\ trains < MaxTrain
    /\ TrainStep(TrainTrain0(trainer, graph, data.input, data.expected))
    /\ trains' = trains + 1
    /\ UNCHANGED <<macro, desc, rng, input_size, pc, data>>

\* network.exec(&input) on the trained graph (Deref of Train, or into_inner)
DoExecTrained ==
    /\ pc = "training"
    /\ call.op # "exec"
    /\ \E n \in 1..MaxBatch : ExecCall(FillArr(<<input_size, n>>, TrainData))
    /\ UNCHANGED <<macro, desc, graph, rng, input_size, pc, trainVars>>

TrainNext == DoInit \/ NewTrainer \/ DoTrain \/ DoTrain0 \/ DoExecTrained

SpecTrain == TrainInit /\ [][TrainNext]_vars

\* ------------------------------------------- perform_epoch and train_batch
MaxExamples == 4

\* The dataset of an epoch: row j of inputs and row j of expected belong to
\* the same example, and no two examples are alike.
EpochInputs(N) == [dim |-> 2, a |-> [j \in 1..N |-> <<Rat(j, 4)>>]]
EpochExpected(M) == [dim |-> 2, a |-> [j \in 1..M |-> <<Rat(-j, 4)>>]]

\* (0..total_inputs).collect()
Identity(N) == [j \in 1..N |-> j - 1]

\* indicies.shuffle(&mut rng): some of the orders a shuffle can leave.
Shuffles(N) ==
    {Identity(N), [j \in 1..N |-> N - j], [j \in 1..N |-> j % N]}

\* &indicies[i..j]: the slice, or a panic when it leaves the vector.
Slice(s, i, j) ==
    IF i > j \/ j > Len(s) THEN [ok |-> FALSE, v |-> <<>>]
    ELSE [ok |-> TRUE, v |-> SubSeq(s, i + 1, j)]

\* A gather that takes the first rows whatever the indices are.
GatherInOrder(A, idx) ==
    [dim |-> A.dim, a |-> [i \in 1..Len(idx) |-> A.a[i]]]

\* train_batch: row i of the batch is assigned row indicies[i] of the data.
Gather(A, idx) ==
    [dim |-> A.dim, a |-> [i \in 1..Len(idx) |-> A.a[idx[i] + 1]]]

\* Train::train panics inside the graph or the cost when the batch does not
\* have the shapes the graph takes and gives.
BatchFits(g, input, expected) ==
    /\ Exec(g, input) # Panicked
    /\ ArrShape(Exec(g, input)) = ArrShape(expected)

\* train_batch(&inputs, &expected, indicies)
TrainBatch(tr, g, inputs, expected, idx) ==
    TrainTrain(tr, g, Gather(inputs, idx), Gather(expected, idx),
               [stream |-> <<FOne>>, pos |-> 0])

\* An epoch cost averaged over the examples.
EpochCostByExamples(cost, N, b) == FDiv(cost, FInt(N))

\* cost / F::from_usize((total_inputs + batch_size - 1) / batch_size)
EpochCost(cost, N, b) == FDiv(cost, FInt((N + b - 1) \div b))

\* The trainers an epoch is run with.
EpochConfigs ==
    {[train |-> "train", opt |-> "SGD", dropout |-> FOne, reg |-> NoReg, beta1 |-> FZero, beta2 |-> FZero],
     [train |-> "train", opt |-> "Adam", dropout |-> FOne, reg |-> NoReg, beta1 |-> Half, beta2 |-> Quarter]}

EpochDescs ==
    {Dense(k) : k \in 1..MaxSize} \cup {Tuple2(Dense(1), Dense(MaxSize))}

EpochInit ==
    /\ desc \in EpochDescs
    /\ \E st \in TrainStreams : rng = [stream |-> st, pos |-> 0]
    /\ graph = NoGraph
    /\ pc = "new"
    /\ input_size = 0
    /\ call = NoCall
    /\ macro = NoMacro
    /\ trainer = NoTrainer /\ data = NoData /\ trains = 0

\* Train { graph, optimiser, cost, regularisation: None, dropout }
NewEpochTrainer ==
    /\ pc = "ready"
    /\ \E cfg \in EpochConfigs :
          trainer' = [train |-> cfg.train, optimiser |-> NewOptimiser(cfg, graph),
                      regularisation |-> cfg.reg, dropout |-> cfg.dropout]
    /\ pc' = "training"
    /\ UNCHANGED <<macro, desc, graph, rng, input_size, call, data, trains>>

\* The checks without the assert_eq!.
EpochChecksUnasserted(N, M, b) ==
    IF b = 0 THEN "step_by" ELSE "loop"

\* The checks perform_epoch makes before its loop: assert_eq! on the lengths
\* of the batch axis, and step_by, which panics on a step of zero.
EpochChecks(N, M, b) ==
    IF N # M THEN "assert_eq" ELSE IF b = 0 THEN "step_by" ELSE "loop"

\* perform_epoch(inputs, expected, batch_size), up to the loop.  `call` keeps
\* the locals of the call, the graph and the optimiser it was made with, and
\* the train_batch calls it has made.
PerformEpoch(N, M, b, perm) ==
    /\ data' = [inputs |-> EpochInputs(N), expected |-> EpochExpected(M)]
    /\ call' = [op |-> "epoch", at |-> EpochChecks(N, M, b),
                batch_size |-> b, total_inputs |-> N,
                indicies |-> IF EpochChecks(N, M, b) = "assert_eq" THEN <<>> ELSE perm,
                i |-> 0, cost |-> FZero, batches |-> <<>>, result |-> NaN,
                before |-> graph, optimiser_before |-> trainer.optimiser]
    /\ pc' = IF EpochChecks(N, M, b) = "loop" THEN "loop" ELSE "panicked"

EpochStart ==
    /\ pc = "training"
    /\ \E N \in 0..MaxExamples :
          \E M \in {N, N + 1}, b \in 0..(N + 1), perm \in Shuffles(N) :
              PerformEpoch(N, M, b, perm)
    /\ UNCHANGED <<macro, desc, graph, rng, input_size, trainer, trains>>

EpochPanic(at) ==
    /\ call' = [call EXCEPT !.at = at]
    /\ pc' = "panicked"
    /\ UNCHANGED <<graph, trainer>>

\* cost = cost + self.train_batch(..): the graph and the optimiser are
\* trained and the cost is added.
EpochTrained(idx, r, last) ==
    /\ graph' = r.graph
    /\ trainer' = [trainer EXCEPT !.optimiser = r.optimiser]
    /\ call' = [call EXCEPT !.cost = FAdd(@, r.cost),
                            !.i = IF last THEN @ ELSE @ + call.batch_size,
                            !.batches = Append(@, [indicies |-> idx,
                                                   input |-> r.raw.input,
                                                   expected |-> r.raw.expected,
                                                   cost |-> r.cost]),
                            !.at = IF last THEN "returned" ELSE @,
                            !.result = IF last
                                       THEN EpochCost(FAdd(call.cost, r.cost),
                                                      call.total_inputs, call.batch_size)
                                       ELSE @]
    /\ pc' = IF last THEN "returned" ELSE "loop"

\* One train_batch call of the epoch on the indices s; the one after the loop
\* is the last.
EpochTrainSlice(s, last) ==
    IF ~s.ok THEN EpochPanic("slice")
    ELSE IF ~BatchFits(graph, Gather(data.inputs, s.v), Gather(data.expected, s.v))
    THEN EpochPanic("train")
    ELSE EpochTrained(s.v, [TrainBatch(trainer, graph, data.inputs, data.expected, s.v)
                              EXCEPT !.raw = [input |-> Gather(data.inputs, s.v),
                                              expected |-> Gather(data.expected, s.v)]],
                      last)

\* for i in (0..total_inputs).step_by(batch_size): one iteration
EpochBatch ==
    /\ pc = "loop"
    /\ call.i < call.total_inputs
    /\ EpochTrainSlice(Slice(call.indicies, call.i, call.i + call.batch_size), FALSE)
    /\ UNCHANGED <<macro, desc, rng, input_size, data, trains>>

\* The end of the loop: the remainder, if total_inputs % batch_size != 0, and
\* the returned mean.
EpochFinish ==
    /\ pc = "loop"
    /\ call.i >= call.total_inputs
    /\ IF (call.total_inputs % call.batch_size) # 0
       THEN /\ EpochTrainSlice(Slice(call.indicies,
                                     call.total_inputs - (call.total_inputs % call.batch_size),
                                     call.total_inputs), TRUE)
            /\ UNCHANGED <<macro, desc, rng, input_size, data, trains>>
       ELSE /\ call' = [call EXCEPT !.at = "returned",
                                    !.result = EpochCost(call.cost, call.total_inputs,
                                                         call.batch_size)]
            /\ pc' = "returned"
            /\ UNCHANGED <<macro, desc, graph, rng, input_size, trainVars>>

EpochNext == DoInit \/ NewEpochTrainer \/ EpochStart \/ EpochBatch \/ EpochFinish

SpecEpoch == EpochInit /\ [][EpochNext]_vars

\* ------------------------------------------------ activation/softmax.rs
\* e^k for k = -2 .. 2, to the precision of the floats.
ExpTable == <<Rat(9, 64), Rat(3, 8), FOne, Rat(87, 32), Rat(473, 64)>>

\* F::exp: the table at the integers and the chord between them; below the
\* table the result underflows to zero and above it overflows to infinity.
FExp(x) ==
    IF IsNaN(x) THEN NaN
    ELSE IF IsInf(x) THEN (IF x.n > 0 THEN x ELSE FZero)
    ELSE IF FLt(x, FInt(-2)) THEN FZero
    ELSE IF FLt(FInt(2), x) THEN Rat(1, 0)
    ELSE IF x.d = 1 THEN ExpTable[x.n + 3]
    ELSE LET k == x.n \div x.d
         IN  FAdd(ExpTable[k + 3],
                  FMul(FSub(x, FInt(k)), FSub(ExpTable[k + 4], ExpTable[k + 3])))

\* ArrayBase::sum: every element of the array, whatever its axes.
ArrSum(A) ==
    IF A.dim = 1 THEN SumSeq(A.a)
    ELSE SumSeq([i \in 1..Rows(A) |-> SumSeq(A.a[i])])

\* A softmax that divides each column by the sum of that column.
SoftmaxExecByColumn(input) ==
    IF input.dim = 1
    THEN Arr1([i \in 1..Len(input.a) |->
                 FDiv(FExp(input.a[i]),
                      SumSeq([k \in 1..Len(input.a) |-> FExp(input.a[k])]))])
    ELSE Arr2([i \in 1..Rows(input) |-> [j \in 1..Cols(input) |->
                 FDiv(FExp(input.a[i][j]),
                      SumSeq([k \in 1..Rows(input) |-> FExp(input.a[k][j])]))]])

\* impl GraphExec for Softmax: y = input.mapv_into(F::exp); y / y.sum()
SoftmaxExec(input) ==
    Mapv(input, LAMBDA x : FDiv(FExp(x), ArrSum(Mapv(input, FExp))))

\* Softmax::forward: the cache is (output, s).
SoftmaxForward(input) ==
    [state |-> [output |-> SoftmaxExec(input), s |-> ArrSum(Mapv(input, FExp))],
     output |-> SoftmaxExec(input)]

\* Softmax::back: d_output * (output - 1 / s.powi(2))
SoftmaxBack(state, d_output) ==
    [d_input |-> Zip(d_output,
                     Mapv(state.output,
                          LAMBDA y : FSub(y, FDiv(FOne, FPowi(state.s, 2)))),
                     FMul),
     grads |-> "Softmax"]

\* activation/sigmoid.rs: the closure of mapv_inplace, one / (one + x.exp())
SigmoidClosure(x) == FDiv(FOne, FAdd(FOne, FExp(x)))

\* SigmoidGraph::exec, on the output of the wrapped graph
SigmoidExec(input) == Mapv(input, SigmoidClosure)

\* SigmoidGraph::forward, on the output of the wrapped graph: the cache holds
\* the output.
SigmoidForward(input) ==
    [state |-> [output |-> SigmoidExec(input)], output |-> SigmoidExec(input)]

\* SigmoidGraph::back: d_output * &output * (-output + F::one()), which is
\* handed to the wrapped graph's back.
SigmoidBack(state, d_output) ==
    [d_input |-> Zip(Zip(d_output, state.output, FMul),
                     Mapv(state.output, LAMBDA y : FAdd(FNeg(y), FOne)),
                     FMul),
     grads |-> "Sigmoid"]

\* The values the activations are fed, three to an input.
ActivationValues == {FInt(-1), FZero, Half, FInt(1)}
ActivationStreams ==
    {<<x, y, z>> : x \in ActivationValues, y \in ActivationValues, z \in ActivationValues}

\* Either one example (Array1) or a batch, one example per column (Array2).
ActivationInit ==
    /\ \E st \in ActivationStreams :
          \/ \E k \in 1..MaxSize : data = [input |-> FillArr(<<k>>, st)]
          \/ \E k \in 1..MaxSize, n \in 1..MaxBatch :
                data = [input |-> FillArr(<<k, n>>, st)]
    /\ pc = "activation"
    /\ desc = [kind |-> "Activation"]
    /\ graph = NoGraph
    /\ rng = [stream |-> <<>>, pos |-> 0]
    /\ input_size = 0
    /\ call = NoCall
    /\ macro = NoMacro
    /\ trainer = NoTrainer /\ trains = 0

\* Softmax.exec(input)
DoSoftmaxExec ==
    /\ pc = "activation"
    /\ call.op = "none"
    /\ call' = [op |-> "softmax_exec", input |-> data.input,
                output |-> SoftmaxExec(data.input)]
    /\ UNCHANGED <<macro, desc, graph, rng, input_size, pc, trainVars>>

\* Softmax.forward(input)
DoSoftmaxForward ==
    /\ pc = "activation"
    /\ call.op = "none"
    /\ call' = [op |-> "softmax_forward", input |-> data.input,
                state |-> SoftmaxForward(data.input).state,
                output |-> SoftmaxForward(data.input).output]
    /\ UNCHANGED <<macro, desc, graph, rng, input_size, pc, trainVars>>

\* Softmax.back(state, d_output)
DoSoftmaxBack ==
    /\ pc = "activation"
    /\ call.op = "softmax_forward"
    /\ \E d_output \in GradientsLike(call.output) :
          call' = [op |-> "softmax_back", input |-> call.input, state |-> call.state,
                   d_output |-> d_output,
                   d_input |-> SoftmaxBack(call.state, d_output).d_input]
    /\ UNCHANGED <<macro, desc, graph, rng, input_size, pc, trainVars>>

\* Relu.forward(input)
DoReluForward ==
    /\ pc = "activation"
    /\ call.op = "none"
    /\ call' = [op |-> "relu_forward", input |-> data.input,
                state |-> ReluForward(data.input).state,
                output |-> ReluForward(data.input).output]
    /\ UNCHANGED <<macro, desc, graph, rng, input_size, pc, trainVars>>

\* Relu.back(state, d_output)
DoReluBack ==
    /\ pc = "activation"
    /\ call.op = "relu_forward"
    /\ \E d_output \in GradientsLike(call.output) :
          call' = [op |-> "relu_back", input |-> call.input, state |-> call.state,
                   d_output |-> d_output,
                   d_input |-> ReluBack(call.state, d_output).d_input]
    /\ UNCHANGED <<macro, desc, graph, rng, input_size, pc, trainVars>>

\* SigmoidGraph.exec(input), input being what the wrapped graph gives
DoSigmoidExec ==
    /\ pc = "activation"
    /\ call.op = "none"
    /\ call' = [op |-> "sigmoid_exec", input |-> data.input,
                output |-> SigmoidExec(data.input)]
    /\ UNCHANGED <<macro, desc, graph, rng, input_size, pc, trainVars>>

\* SigmoidGraph.forward(input)
DoSigmoidForward ==
    /\ pc = "activation"
    /\ call.op = "none"
    /\ call' = [op |-> "sigmoid_forward", input |-> data.input,
                state |-> SigmoidForward(data.input).state,
                output |-> SigmoidForward(data.input).output]
    /\ UNCHANGED <<macro, desc, graph, rng, input_size, pc, trainVars>>

\* SigmoidGraph.back(state, d_output)
DoSigmoidBack ==
    /\ pc = "activation"
    /\ call.op = "sigmoid_forward"
    /\ \E d_output \in GradientsLike(call.output) :
          call' = [op |-> "sigmoid_back", input |-> call.input, state |-> call.state,
                   d_output |-> d_output,
                   d_input |-> SigmoidBack(call.state, d_output).d_input]
    /\ UNCHANGED <<macro, desc, graph, rng, input_size, pc, trainVars>>

ActivationNext ==
    \/ DoSoftmaxExec \/ DoSoftmaxForward \/ DoSoftmaxBack
    \/ DoReluForward \/ DoReluBack
    \/ DoSigmoidExec \/ DoSigmoidForward \/ DoSigmoidBack

SpecActivation == ActivationInit /\ [][ActivationNext]_vars

\* ----------------------------------------- the examples: make_bacthes
\* numbers.shuffle(&mut rng): every order of 0 .. length - 1.
AllShuffles(N) ==
    {p \in [1..N -> 0..(N - 1)] : \A i, j \in 1..N : p[i] = p[j] => i = j}

\* Where the batch pushed after the loop starts, undersized.
RemainderStartAligned(length, batch_size) == length - (length % batch_size)

\* numbers[length - batch_size..]: where the batch pushed after the loop starts.
RemainderStart(length, batch_size) == length - batch_size

BatchesInit ==
    /\ \E length \in 0..MaxExamples :
          \E batch_size \in 0..(length + 1), numbers \in AllShuffles(length) :
              data = [length |-> length, batch_size |-> batch_size, numbers |-> numbers]
    /\ pc = "batches"
    /\ call = NoCall
    /\ desc = [kind |-> "Batches"]
    /\ graph = NoGraph
    /\ rng = [stream |-> <<>>, pos |-> 0]
    /\ input_size = 0
    /\ macro = NoMacro
    /\ trainer = NoTrainer /\ trains = 0

\* make_bacthes(length, batch_size), up to the loop: `length - batch_size`
\* underflows when batch_size is above length, and step_by panics on zero.
MakeBatches ==
    /\ pc = "batches"
    /\ call.op = "none"
    /\ call' = [op |-> "make_bacthes",
                pc |-> IF data.batch_size > data.length \/ data.batch_size = 0
                       THEN "panicked" ELSE "loop",
                i |-> 0, batches |-> <<>>]
    /\ UNCHANGED <<macro, desc, graph, rng, input_size, pc, trainVars>>

\* for i in (0..=length - batch_size).step_by(batch_size): one push
BatchesPush ==
    /\ pc = "batches"
    /\ call.op = "make_bacthes" /\ call.pc = "loop"
    /\ call.i <= data.length - data.batch_size
    /\ call' = [call EXCEPT
                  !.batches = Append(@, Slice(data.numbers, call.i,
                                              call.i + data.batch_size).v),
                  !.i = @ + data.batch_size]
    /\ UNCHANGED <<macro, desc, graph, rng, input_size, pc, trainVars>>

\* After the loop: the batch of the last batch_size numbers when length is not
\* a multiple of batch_size, and the return.
BatchesReturn ==
    /\ pc = "batches"
    /\ call.op = "make_bacthes" /\ call.pc = "loop"
    /\ call.i > data.length - data.batch_size
    /\ call' = [call EXCEPT
                  !.batches = IF (data.length % data.batch_size) # 0
                              THEN Append(@, Slice(data.numbers,
                                                   RemainderStart(data.length,
                                                                  data.batch_size),
                                                   data.length).v)
                              ELSE @,
                  !.pc = "returned"]
    /\ UNCHANGED <<macro, desc, graph, rng, input_size, pc, trainVars>>

BatchesNext == MakeBatches \/ BatchesPush \/ BatchesReturn

SpecBatches == BatchesInit /\ [][BatchesNext]_vars

\* ------------------------- the examples: the event channel and the UI loop
MaxEpochs == 2
MaxTicks == 1

\* enum Event { Input(Key), Tick, EpochComplete(f64), Step(usize, usize) }
Event(type, key, step, steps, cost) ==
    [type |-> type, key |-> key, step |-> step, steps |-> steps, cost |-> cost]

\* A channel of one slot: a send waits while the slot is taken.
CanSendBounded(queue) == Len(queue) < 1

\* mpsc::channel(): asynchronous and unbounded, a send never waits.
CanSend(queue) == TRUE

\* A receive that takes the newest event.
RecvNewest(queue) ==
    [event |-> queue[Len(queue)], rest |-> SubSeq(queue, 1, Len(queue) - 1)]

\* Events::next: self.rx.recv(), the oldest event of the channel.
Recv(queue) == [event |-> Head(queue), rest |-> Tail(queue)]

\* The cost the k-th train call of the training thread returns.
TrainCostOf(k) == Rat(1, k)

\* Events::with_config: the channel is empty, the three threads are spawned,
\* and main has made its App.  `call` is the channel and the UI loop, `data`
\* the input and the tick thread, `trainer` the training thread; the cost
\* field of app.costs is the cost the plotted point is computed from.
EventsInit ==
    /\ pc = "events"
    /\ call = [op |-> "events", queue |-> <<>>, received |-> <<>>,
               app |-> [steps |-> <<0, 1>>, costs |-> <<>>], ui |-> "running"]
    /\ \E n \in 1..MaxBatch :
          trainer = [kind |-> "thread", pc |-> "epoch", epoch |-> 0, i |-> 0, n |-> n,
                     total_cost |-> FZero, sent |-> <<>>]
    /\ data = [input |-> "reading", keys |-> 0, tick |-> "running", ticks |-> 0]
    /\ trains = 0
    /\ desc = [kind |-> "Events"]
    /\ graph = NoGraph
    /\ rng = [stream |-> <<>>, pos |-> 0]
    /\ input_size = 0
    /\ macro = NoMacro

\* The input thread: for key in stdin.keys() { tx.send(Event::Input(key)) .. }
InputKey ==
    /\ pc = "events"
    /\ data.input = "reading"
    /\ data.keys < MaxTicks
    /\ CanSend(call.queue)
    /\ \E key \in {"q", "x"} :
          IF call.ui = "exited"
          THEN /\ data' = [data EXCEPT !.input = "returned"]
               /\ call' = call
          ELSE /\ call' = [call EXCEPT
                             !.queue = Append(@, Event("Input", key, 0, 0, FZero))]
               /\ data' = [data EXCEPT !.keys = @ + 1,
                                       !.input = IF key = "q" THEN "returned" ELSE @]
    /\ UNCHANGED <<macro, desc, graph, rng, input_size, pc, trainer, trains>>

\* The tick thread: loop { tx.send(Event::Tick); sleep(tick_rate) }
TickSend ==
    /\ pc = "events"
    /\ data.tick = "running"
    /\ data.ticks < MaxTicks
    /\ CanSend(call.queue)
    /\ IF call.ui = "exited"
       THEN /\ data' = [data EXCEPT !.tick = "stopped"]
            /\ call' = call
       ELSE /\ call' = [call EXCEPT !.queue = Append(@, Event("Tick", "", 0, 0, FZero))]
            /\ data' = [data EXCEPT !.ticks = @ + 1]
    /\ UNCHANGED <<macro, desc, graph, rng, input_size, pc, trainer, trains>>

\* train: the head of `for _ in 0..`, make_bacthes and the epoch's locals
TrainStartEpoch ==
    /\ pc = "events"
    /\ trainer.pc = "epoch"
    /\ trainer.epoch < MaxEpochs
    /\ trainer' = [trainer EXCEPT !.pc = "train", !.i = 0, !.total_cost = FZero]
    /\ UNCHANGED <<macro, desc, graph, rng, input_size, pc, call, data, trains>>

\* train: total_cost += trainer.train(&input, &expected)
TrainBatchStep ==
    /\ pc = "events"
    /\ trainer.pc = "train"
    /\ trains' = trains + 1
    /\ trainer' = [trainer EXCEPT !.pc = "send_step",
                                  !.total_cost = FAdd(@, TrainCostOf(trains + 1))]
    /\ UNCHANGED <<macro, desc, graph, rng, input_size, pc, call, data>>

\* tx.send(e).unwrap() of the training thread: the event is queued, or the
\* thread panics when the receiver is gone.
TrainSend(e, next) ==
    IF call.ui = "exited"
    THEN /\ trainer' = [trainer EXCEPT !.pc = "panicked"]
         /\ call' = call
    ELSE /\ call' = [call EXCEPT !.queue = Append(@, e)]
         /\ trainer' = [next EXCEPT !.sent = Append(@, e)]

\* train: tx.send(Event::Step(i, n)).unwrap()
TrainSendStep ==
    /\ pc = "events"
    /\ trainer.pc = "send_step"
    /\ CanSend(call.queue)
    /\ TrainSend(Event("Step", "", trainer.i, trainer.n, FZero),
                 [trainer EXCEPT !.i = @ + 1,
                                 !.pc = IF trainer.i + 1 < trainer.n
                                        THEN "train" ELSE "send_epoch"])
    /\ UNCHANGED <<macro, desc, graph, rng, input_size, pc, data, trains>>

\* train: tx.send(Event::EpochComplete(total_cost / len)).unwrap()
TrainSendEpoch ==
    /\ pc = "events"
    /\ trainer.pc = "send_epoch"
    /\ CanSend(call.queue)
    /\ TrainSend(Event("EpochComplete", "", 0, 0,
                       FDiv(trainer.total_cost, FInt(trainer.n))),
                 [trainer EXCEPT !.epoch = @ + 1, !.pc = "epoch"])
    /\ UNCHANGED <<macro, desc, graph, rng, input_size, pc, data, trains>>

\* main: match events.next()? { Input, Tick, EpochComplete, Step }; add_cost
\* pushes (len + 1, cost.log10()), kept here as the cost the logarithm is of.
UIHandle(e) ==
    IF e.type = "Input" THEN
        [call EXCEPT !.ui = IF e.key = "q" THEN "exited" ELSE @]
    ELSE IF e.type = "Tick" THEN call
    ELSE IF e.type = "EpochComplete" THEN
        [call EXCEPT !.app.costs = Append(@, [epoch |-> Len(@) + 1, log10_of |-> e.cost]),
                     !.received = Append(@, e)]
    ELSE [call EXCEPT !.app.steps = <<e.step, e.steps>>,
                      !.received = Append(@, e)]

\* main: one turn of the loop
UILoop ==
    /\ pc = "events"
    /\ call.ui = "running"
    /\ call.queue # <<>>
    /\ call' = [UIHandle(Recv(call.queue).event) EXCEPT !.queue = Recv(call.queue).rest]
    /\ UNCHANGED <<macro, desc, graph, rng, input_size, pc, trainer, data, trains>>

EventsNext ==
    \/ InputKey \/ TickSend
    \/ TrainStartEpoch \/ TrainBatchStep \/ TrainSendStep \/ TrainSendEpoch
    \/ UILoop

SpecEvents == EventsInit /\ [][EventsNext]_vars

\* ------------------------------------------------- comparing values
\* Two arrays are the same array: same rank, same shape, same elements
\* (elements compare as values, so NaN is the same as NaN here).
ArrEq(A, B) == A.dim = B.dim /\ ArrShape(A) = ArrShape(B) /\ A.a = B.a

RECURSIVE GraphEq(_, _)
\* Two states (or gradients) have the same structure and the same values.
GraphEq(g, h) ==
    /\ g.kind = h.kind
    /\ IF g.kind = "Dense" THEN ArrEq(g.w, h.w) /\ ArrEq(g.b, h.b)
       ELSE IF g.kind = "Linear" THEN g.linear = h.linear /\ GraphEq(g.graph, h.graph)
       ELSE IF g.kind = "Tuple2" THEN GraphEq(g.g0, h.g0) /\ GraphEq(g.g1, h.g1)
       ELSE TRUE

RECURSIVE SameShape(_, _)
\* Two states (or a gradient and a state) have the same structure and the
\* same dimensions at every leaf.
SameShape(g, h) ==
    /\ g.kind = h.kind
    /\ IF g.kind = "Dense" THEN
           /\ g.w.dim = 2 /\ h.w.dim = 2 /\ ArrShape(g.w) = ArrShape(h.w)
           /\ g.b.dim = 1 /\ h.b.dim = 1 /\ ArrShape(g.b) = ArrShape(h.b)
       ELSE IF g.kind = "Linear" THEN g.linear = h.linear /\ SameShape(g.graph, h.graph)
       ELSE IF g.kind = "Tuple2" THEN SameShape(g.g0, h.g0) /\ SameShape(g.g1, h.g1)
       ELSE TRUE

\* The leaves of a nested pair of states, left to right.
StageLeaves(g) == Leaves(g)

RECURSIVE SeqGraphEq(_, _)
SeqGraphEq(s, t) ==
    /\ Len(s) = Len(t)
    /\ \A i \in 1..Len(s) : GraphEq(s[i], t[i])

\* The dense stage of a leaf, activated or not (a descriptor or a state).
DenseOf(x) == IF x.kind = "Linear" THEN x.graph ELSE x

RECURSIVE Concat(_)
Concat(ss) == IF ss = <<>> THEN <<>> ELSE ss[1] \o Concat(Tail(ss))

RECURSIVE Params(_)
\* Every element of a state (or of a gradient), stage by stage: the weights row
\* by row, then the bias.
Params(g) ==
    IF g.kind = "Dense" THEN
        (IF g.w.dim = 2 THEN Concat(g.w.a) ELSE <<>>) \o (IF g.b.dim = 1 THEN g.b.a ELSE <<>>)
    ELSE IF g.kind = "Linear" THEN Params(g.graph)
    ELSE IF g.kind = "Tuple2" THEN Params(g.g0) \o Params(g.g1)
    ELSE <<>>

\* ------------------------------------------------------------ C1
\* C1: back on a pair (A, B) after forward returns what the stages' own
\* forward and back return when called by hand, A.forward then B.forward,
\* B.back then A.back on the input-gradient B.back returned: the same output,
\* the same caches, the same input-gradient and the gradient pair (dA, dB).
C1_PairIsManualComposition ==
    (call.op = "back" /\ graph.kind = "Tuple2") =>
        LET fa == Forward(graph.g0, call.input)
            fb == Forward(graph.g1, fa.output)
            bb == Back(graph.g1, fb.state, call.d_output)
            ba == Back(graph.g0, fa.state, bb.d_input)
        IN  /\ ArrEq(call.output, fb.output)
            /\ call.state.s0 = fa.state
            /\ call.state.s1 = fb.state
            /\ ArrEq(call.d_input, ba.d_input)
            /\ call.grads.kind = "Tuple2"
            /\ GraphEq(call.grads.g0, ba.grads)
            /\ GraphEq(call.grads.g1, bb.grads)

\* A pair of two different dense widths has been run forward and back on a
\* batch of two examples.
C1_Witness ==
    /\ call.op = "back"
    /\ graph.kind = "Tuple2"
    /\ graph.g0.kind = "Dense" /\ graph.g1.kind = "Dense"
    /\ Rows(graph.g0.w) # Rows(graph.g1.w)
    /\ call.input.dim = 2 /\ Cols(call.input) = 2
    /\ call.grads.g0.w.a[1][1] # FZero

\* ------------------------------------------------------------ C4
\* The other grouping of a chain of three stages.
Regroup(g) ==
    IF g.g0.kind = "Tuple2" THEN Tuple2(g.g0.g0, Tuple2(g.g0.g1, g.g1))
    ELSE Tuple2(Tuple2(g.g0, g.g1.g0), g.g1.g1)

IsChainOfThree(g) ==
    /\ g.kind = "Tuple2"
    /\ (g.g0.kind = "Tuple2" \/ g.g1.kind = "Tuple2")

\* C4: ((A, B), C) and (A, (B, C)) give the same exec output, the same
\* forward output, the same input-gradient and the same gradients of A, B, C.
C4_Associative ==
    IsChainOfThree(graph) =>
        LET other == Regroup(graph)
        IN  /\ call.op = "exec" => ArrEq(call.output, Exec(other, call.input))
            /\ call.op = "forward" =>
                  ArrEq(call.output, Forward(other, call.input).output)
            /\ call.op = "back" =>
                  LET f == Forward(other, call.input)
                      b == Back(other, f.state, call.d_output)
                  IN  /\ ArrEq(call.output, f.output)
                      /\ ArrEq(call.d_input, b.d_input)
                      /\ SeqGraphEq(StageLeaves(call.grads), StageLeaves(b.grads))

\* A chain of three activated dense stages, grouped to the left, has been run
\* forward and back, with a finite non-zero gradient for its first stage.
C4_Witness ==
    /\ call.op = "back"
    /\ IsChainOfThree(graph)
    /\ graph.g0.kind = "Tuple2"
    /\ graph.g1.kind = "Linear"
    /\ LET w == StageLeaves(call.grads)[1].graph.w
       IN  w.dim = 2 /\ IsFinite(w.a[1][1]) /\ w.a[1][1] # FZero

\* ------------------------------------------------------------ C5
\* C5: for a dense leaf, back on a batch of n examples returns dX = W^T . dY,
\* dW = (dY . X^T) / n and db = the mean of dY over the batch; on one
\* unbatched example dW = dY (x) X undivided and db = dY.
C5_DenseBack ==
    (call.op = "back" /\ graph.kind = "Dense") =>
        LET W == graph.w.a
            X == call.input.a
            dY == call.d_output.a
            dX == call.d_input
            dW == call.grads.w
            db == call.grads.b
            o == Rows(graph.w)
            k == Cols(graph.w)
        IN  IF call.input.dim = 2 THEN
                LET n == Cols(call.input)
                IN  /\ dX.dim = 2 /\ ArrShape(dX) = <<k, n>>
                    /\ \A j \in 1..k : \A c \in 1..n :
                          dX.a[j][c] = SumSeq([i \in 1..o |-> FMul(W[i][j], dY[i][c])])
                    /\ dW.dim = 2 /\ ArrShape(dW) = <<o, k>>
                    /\ \A i \in 1..o : \A j \in 1..k :
                          dW.a[i][j] =
                            FDiv(SumSeq([c \in 1..n |-> FMul(dY[i][c], X[j][c])]), FInt(n))
                    /\ db.dim = 1 /\ ArrShape(db) = <<o>>
                    /\ \A i \in 1..o :
                          db.a[i] = FDiv(SumSeq([c \in 1..n |-> dY[i][c]]), FInt(n))
            ELSE
                /\ dX.dim = 1 /\ ArrShape(dX) = <<k>>
                /\ \A j \in 1..k :
                      dX.a[j] = SumSeq([i \in 1..o |-> FMul(W[i][j], dY[i])])
                /\ dW.dim = 2 /\ ArrShape(dW) = <<o, k>>
                /\ \A i \in 1..o : \A j \in 1..k : dW.a[i][j] = FMul(dY[i], X[j])
                /\ db.dim = 1 /\ ArrShape(db) = <<o>>
                /\ \A i \in 1..o : db.a[i] = dY[i]

\* A dense leaf has been run back on a batch of two examples whose summed
\* weight gradient is odd, so that the mean differs from the sum.
C5_Witness ==
    /\ call.op = "back"
    /\ graph.kind = "Dense"
    /\ call.input.dim = 2 /\ Cols(call.input) = 2
    /\ call.grads.w.a[1][1].d = 2

\* One unbatched example has been run back through a dense leaf.
C5_WitnessUnbatched ==
    /\ call.op = "back"
    /\ graph.kind = "Dense"
    /\ call.input.dim = 1
    /\ call.grads.w.a[1][1] # FZero

\* ------------------------------------------------------------ C6
\* C6: the gradient back returns has the structure and the dimensions of the
\* state, down to every leaf: dW is out x in like W and db is out like b.
C6_GradsShapedLikeState ==
    call.op = "back" => SameShape(call.grads, graph)

\* A pair of an activated 1 -> 2 dense stage and a stage of another width has
\* been run back: dW of the first stage is 2 x 1.
C6_Witness ==
    /\ call.op = "back"
    /\ graph.kind = "Tuple2"
    /\ graph.g0.kind = "Linear"
    /\ ArrShape(graph.g0.graph.w) = <<2, 1>>
    /\ ArrShape(call.grads.g0.graph.w) = <<2, 1>>
    /\ call.grads.g1.kind = "Linear"

C7_SGDStep ==
    (call.op = "train" /\ call.optimiser_before.kind \in {"SGD", "SGD0"}) =>
        LET before == Params(call.before)
            grad == Params(call.grads)
            after == Params(graph)
            alpha == call.optimiser_before.alpha
        IN  /\ Len(after) = Len(before)
            /\ \A i \in 1..Len(after) :
                  after[i] = FSub(before[i], FMul(alpha, grad[i]))
            /\ trainer.optimiser = call.optimiser_before

\* ------------------------------------------------------------ C8
\* C8: Adam starts with t = 0 and m = v = 0; after k train calls t = k; the
\* k-th call leaves m = beta1*m + (1-beta1)*grad and
\* v = beta2*v + (1-beta2)*grad^2 of their values before it, and moves every
\* parameter by alpha * mhat / (sqrt(vhat) + epsilon), where mhat and vhat are
\* the new m and v divided by 1 - beta^k: the exponent is k, never 0.
C8_AdamStep ==
    (pc = "training" /\ trainer.optimiser.kind = "Adam") =>
        LET o == trainer.optimiser
        IN  /\ o.t = trains
            /\ trains = 0 =>
                  /\ \A i \in 1..Len(Params(o.m)) : Params(o.m)[i] = FZero
                  /\ \A i \in 1..Len(Params(o.v)) : Params(o.v)[i] = FZero
            /\ call.op = "train" =>
                  LET ob == call.optimiser_before
                      g == Params(call.grads)
                      m0 == Params(ob.m)
                      v0 == Params(ob.v)
                      m1 == Params(o.m)
                      v1 == Params(o.v)
                      theta0 == Params(call.before)
                      theta1 == Params(graph)
                      k == trains
                  IN  /\ k >= 1
                      /\ o.t = ob.t + 1
                      /\ Len(m1) = Len(g) /\ Len(v1) = Len(g) /\ Len(theta1) = Len(g)
                      /\ \A i \in 1..Len(g) :
                            /\ m1[i] = FAdd(FMul(m0[i], o.beta1),
                                            FMul(g[i], FSub(FOne, o.beta1)))
                            /\ v1[i] = FAdd(FMul(v0[i], o.beta2),
                                            FMul(FMul(g[i], g[i]), FSub(FOne, o.beta2)))
                            /\ LET mhat == FDiv(m1[i], FSub(FOne, FPowi(o.beta1, k)))
                                   vhat == FDiv(v1[i], FSub(FOne, FPowi(o.beta2, k)))
                               IN  theta1[i] =
                                     FSub(theta0[i],
                                          FDiv(FMul(mhat, o.alpha),
                                               FAdd(FSqrt(vhat), o.epsilon)))

\* Adam with beta1 = 1/2 has made its second step, on a finite non-zero
\* gradient, and the step moved a parameter.
C8_Witness ==
    /\ pc = "training"
    /\ trainer.optimiser.kind = "Adam"
    /\ trainer.optimiser.beta1 = Half
    /\ trainer.optimiser.t = 2
    /\ call.op = "train"
    /\ \E i \in 1..Len(Params(call.grads)) :
          /\ IsFinite(Params(call.grads)[i])
          /\ Params(call.grads)[i] # FZero
          /\ IsFinite(Params(graph)[i])
          /\ Params(graph)[i] # Params(call.before)[i]

\* ------------------------------------------------------------ C9
\* C9: from the construction of Adam on the graph's shape and after every
\* train call, m and v have the structure of the graph state and the
\* dimensions of each of its leaves.
C9_MomentsMirrorGraph ==
    (pc = "training" /\ trainer.optimiser.kind = "Adam") =>
        /\ SameShape(trainer.optimiser.m, graph)
        /\ SameShape(trainer.optimiser.v, graph)

\* Adam has made two steps on a chain whose two stages differ in shape.
C9_Witness ==
    /\ pc = "training"
    /\ trainer.optimiser.kind = "Adam"
    /\ trainer.optimiser.t = 2
    /\ graph.kind = "Tuple2"
    /\ ArrShape(DenseOf(graph.g0).w) # ArrShape(DenseOf(graph.g1).w)
    /\ ArrShape(DenseOf(trainer.optimiser.m.g0).w) = ArrShape(DenseOf(graph.g0).w)
    /\ \E i \in 1..Len(Params(trainer.optimiser.v)) :
          /\ IsFinite(Params(trainer.optimiser.v)[i])
          /\ Params(trainer.optimiser.v)[i] # FZero

\* ------------------------------------------------------------ C10
\* C10: in a train call with a dropout rate p in [0, 1), the graph get_grads
\* runs on holds zero for every parameter whose mask draw is below p and the
\* parameter times 1/(1-p) for every other one, and the cost and the gradients
\* are those of that graph.
C10_DropoutMasksForward ==
    (call.op = "train" /\ call.dropping) =>
        LET p == trainer.dropout
            theta == Params(call.before)
            d == Params(call.dropouts)
            used == Params(call.used)
        IN  /\ Len(used) = Len(theta)
            /\ \A i \in 1..Len(used) :
                  used[i] = IF FLt(d[i], p) THEN FZero
                            ELSE FMul(theta[i], FDiv(FOne, FSub(FOne, p)))
            /\ call.raw = GetGrads(call.masked, call.input, call.expected)

\* ------------------------------------------------------------ C11
\* C11: in a train call with a dropout rate p in [0, 1), one mask of the
\* shape of the graph is drawn, and the gradient of get_grads is masked with
\* it: the element at a position whose draw is below p becomes zero, every
\* other element is multiplied by 1/(1-p).
C11_GradsMaskedBySameMask ==
    (call.op = "train" /\ call.dropping) =>
        LET p == trainer.dropout
            d == Params(call.dropouts)
            raw == Params(call.raw.grads)
            mg == Params(call.masked_grads)
        IN  /\ SameShape(call.dropouts, call.before)
            /\ SameShape(call.masked_grads, call.before)
            /\ Len(d) = Len(raw) /\ Len(mg) = Len(raw)
            /\ \A i \in 1..Len(mg) :
                  mg[i] = IF FLt(d[i], p) THEN FZero
                          ELSE FMul(raw[i], FDiv(FOne, FSub(FOne, p)))

\* A train call with p = 1/2 on a chain of two stages dropped one gradient
\* element that was not zero and doubled another.
C11_Witness ==
    /\ call.op = "train"
    /\ call.dropping
    /\ trainer.dropout = Half
    /\ graph.kind = "Tuple2"
    /\ \E i \in 1..Len(Params(call.raw.grads)) :
          /\ FLt(Params(call.dropouts)[i], Half)
          /\ IsFinite(Params(call.raw.grads)[i])
          /\ Params(call.raw.grads)[i] # FZero
          /\ Params(call.masked_grads)[i] = FZero
    /\ \E i \in 1..Len(Params(call.raw.grads)) :
          /\ ~FLt(Params(call.dropouts)[i], Half)
          /\ IsFinite(Params(call.raw.grads)[i])
          /\ Params(call.raw.grads)[i] # FZero
          /\ Params(call.masked_grads)[i] # Params(call.raw.grads)[i]

\* ------------------------------------------------------------ C12
\* C12: a train call with dropout p = 0 hands the optimiser the gradient,
\* returns the cost and leaves the graph and the optimiser that the same call
\* without dropout gives, whatever the mask draws are.
C12_ZeroDropoutIsNoDropout ==
    (call.op = "train" /\ call.dropping /\ trainer.dropout = FZero) =>
        LET off == [trainer EXCEPT !.dropout = FOne,
                                   !.optimiser = call.optimiser_before]
            r == TrainTrain(off, call.before, call.input, call.expected,
                            [stream |-> <<FOne>>, pos |-> 0])
        IN  /\ ~r.dropping
            /\ GraphEq(call.grads, r.grads)
            /\ call.cost = r.cost
            /\ GraphEq(graph, r.graph)
            /\ trainer.optimiser = r.optimiser

\* A train call with p = 0 drew a mask holding a draw of exactly 0 and
\* moved a parameter.
C12_Witness ==
    /\ call.op = "train"
    /\ call.dropping
    /\ trainer.dropout = FZero
    /\ \E i \in 1..Len(Params(call.dropouts)) :
          /\ Params(call.dropouts)[i] = FZero
          /\ IsFinite(Params(call.grads)[i])
          /\ Params(call.grads)[i] # FZero
    /\ \E i \in 1..Len(Params(graph)) :
          /\ IsFinite(Params(graph)[i])
          /\ Params(graph)[i] # Params(call.before)[i]

\* ------------------------------------------------------------ C13
\* C13: with a regularisation configured, the gradient handed to the
\* optimiser is, element by element, the gradient of get_grads (masked, under
\* dropout) plus a*sign(x) for L1(a), 2*a*x for L2(a) and a*sign(x) + 2*b*x
\* for L1_2(a, b), x being the parameter before the optimiser's step.  sign is
\* the floats' signum: 1 at zero.
C13_RegGradient ==
    (call.op = "train" /\ trainer.regularisation.kind # "None") =>
        LET r == trainer.regularisation
            x == Params(call.before)
            mg == Params(call.masked_grads)
            g == Params(call.grads)
            two == FInt(2)
        IN  /\ Len(g) = Len(x) /\ Len(mg) = Len(x)
            /\ \A i \in 1..Len(g) :
                  g[i] = IF r.kind = "L1" THEN FAdd(mg[i], FMul(r.a, FSignum(x[i])))
                         ELSE IF r.kind = "L2"
                         THEN FAdd(mg[i], FMul(FMul(two, r.a), x[i]))
                         ELSE FAdd(FAdd(mg[i], FMul(r.a, FSignum(x[i]))),
                                   FMul(FMul(two, r.b), x[i]))

\* A train call with L1_2(1/2, 1) and dropout handed the optimiser a finite
\* gradient that differs from the masked one at a negative parameter.
C13_Witness ==
    /\ call.op = "train"
    /\ trainer.regularisation.kind = "L1_2"
    /\ call.dropping
    /\ \E i \in 1..Len(Params(call.grads)) :
          /\ FLt(Params(call.before)[i], FZero)
          /\ IsFinite(Params(call.grads)[i])
          /\ Params(call.grads)[i] # Params(call.masked_grads)[i]

\* ------------------------------------------------------------ C14
\* The penalty of a regularisation summed over the parameters.
Penalty(r, xs) ==
    SumSeq([i \in 1..Len(xs) |->
              IF r.kind = "L1" THEN FMul(FAbs(xs[i]), r.a)
              ELSE IF r.kind = "L2" THEN FMul(FMul(xs[i], xs[i]), r.a)
              ELSE FAdd(FMul(FAbs(xs[i]), r.a), FMul(FMul(xs[i], xs[i]), r.b))])

\* C14: with a regularisation configured, the cost train returns is the cost
\* function's value plus the penalty summed over every parameter: a*|x| for
\* L1(a), a*x^2 for L2(a), a*|x| + b*x^2 for L1_2(a, b).
C14_CostIncludesPenalty ==
    (call.op = "train" /\ trainer.regularisation.kind # "None") =>
        call.cost = FAdd(call.raw.cost,
                         Penalty(trainer.regularisation, Params(call.before)))

\* ------------------------------------------------------------ C15
\* The batches of an epoch, concatenated in the order they were trained.
RECURSIVE BatchIndices(_)
BatchIndices(bs) ==
    IF bs = <<>> THEN <<>> ELSE bs[1].indicies \o BatchIndices(Tail(bs))

\* C15: in a perform_epoch over N examples, the indices are one permutation
\* of 0..N-1, batch k is the k-th consecutive chunk of batch_size of them, and
\* row i of a batch is the input and the expected output of example
\* indicies[i]; when batch_size divides N and the call returns, there are
\* N / batch_size batches and together they hold every index exactly once.
C15_BatchesPartitionPermutation ==
    (call.op = "epoch" /\ pc \in {"loop", "returned"}) =>
        LET N == call.total_inputs
            b == call.batch_size
        IN  /\ Len(call.indicies) = N
            /\ {call.indicies[j] : j \in 1..N} = 0..(N - 1)
            /\ \A k \in 1..Len(call.batches) :
                  LET idx == call.batches[k].indicies
                  IN  /\ idx = [i \in 1..b |-> call.indicies[(k - 1) * b + i]]
                      /\ Rows(call.batches[k].input) = b
                      /\ Rows(call.batches[k].expected) = b
                      /\ \A i \in 1..b :
                            /\ call.batches[k].input.a[i] = data.inputs.a[idx[i] + 1]
                            /\ call.batches[k].expected.a[i] = data.expected.a[idx[i] + 1]
            /\ (pc = "returned" /\ N % b = 0) =>
                  /\ Len(call.batches) = N \div b
                  /\ BatchIndices(call.batches) = call.indicies

\* An epoch over four examples in two batches of two returned, the examples
\* shuffled out of their order.
C15_Witness ==
    /\ call.op = "epoch" /\ pc = "returned"
    /\ call.total_inputs = 4 /\ call.batch_size = 2
    /\ Len(call.batches) = 2
    /\ call.indicies # Identity(4)

\* ------------------------------------------------------------ C16
\* C16: when batch_size b with 1 <= b <= N does not divide N and every batch
\* fits the graph, perform_epoch returns, having trained floor(N / b) chunks
\* of b and then a chunk of the last N mod b indices.
C16_RemainderIsTrained ==
    (/\ call.op = "epoch" /\ pc \in {"returned", "panicked"}
     /\ call.at # "train"
     /\ call.batch_size >= 1 /\ call.batch_size <= call.total_inputs
     /\ Rows(data.inputs) = Rows(data.expected)
     /\ (call.total_inputs % call.batch_size) # 0) =>
        LET N == call.total_inputs
            b == call.batch_size
        IN  /\ pc = "returned"
            /\ Len(call.batches) = (N \div b) + 1
            /\ call.batches[Len(call.batches)].indicies
                   = SubSeq(call.indicies, N - (N % b) + 1, N)

\* ------------------------------------------------------------ C17
\* The costs of the batches added up in the order they were trained.
RECURSIVE SumCosts(_)
SumCosts(bs) ==
    IF bs = <<>> THEN FZero
    ELSE FAdd(SumCosts(SubSeq(bs, 1, Len(bs) - 1)), bs[Len(bs)].cost)

\* C17: the value perform_epoch returns is the sum of the costs of the
\* train_batch calls of the epoch divided by the number of those calls, which
\* is ceil(N / batch_size).
C17_EpochCostIsMean ==
    (call.op = "epoch" /\ pc = "returned") =>
        /\ call.result = FDiv(SumCosts(call.batches), FInt(Len(call.batches)))
        /\ Len(call.batches)
               = (call.total_inputs + call.batch_size - 1) \div call.batch_size

\* An epoch of two batches of two returned a finite cost that is not zero.
C17_Witness ==
    /\ call.op = "epoch" /\ pc = "returned"
    /\ call.batch_size = 2
    /\ Len(call.batches) = 2
    /\ IsFinite(call.result) /\ call.result # FZero

\* ------------------------------------------------------------ C18
\* The configurations perform_epoch fails on: inputs and expected of
\* different lengths, a batch_size of zero, a batch_size above a dataset that
\* is not empty.
EpochMisconfigured ==
    \/ Rows(data.inputs) # Rows(data.expected)
    \/ call.batch_size = 0
    \/ (call.batch_size > call.total_inputs /\ call.total_inputs >= 1)

\* C18: a perform_epoch called with inputs and expected of different
\* lengths, with batch_size zero or with batch_size above the dataset's size
\* does not return, and when it has failed no batch was trained: the graph
\* and the optimiser are what they were when the call was made.
C18_FailsBeforeTraining ==
    (call.op = "epoch" /\ EpochMisconfigured) =>
        /\ pc # "returned"
        /\ pc = "panicked" =>
              /\ call.batches = <<>>
              /\ graph = call.before
              /\ trainer.optimiser = call.optimiser_before

\* An epoch with a batch_size above the number of examples failed on its
\* first slice, with an Adam optimiser.
C18_Witness ==
    /\ call.op = "epoch" /\ pc = "panicked"
    /\ call.at = "slice"
    /\ call.total_inputs >= 1
    /\ call.batch_size > call.total_inputs
    /\ trainer.optimiser.kind = "Adam"

\* ------------------------------------------------------------ C19
\* C19: in a train call with dropout p in [0, 1), a parameter whose mask draw
\* is below p has after the call the value it had before it.
C19_DroppedParametersUnchanged ==
    (call.op = "train" /\ call.dropping) =>
        \A i \in 1..Len(Params(call.before)) :
            FLt(Params(call.dropouts)[i], trainer.dropout) =>
                Params(graph)[i] = Params(call.before)[i]

\* ------------------------------------------------------------ C20
\* Equal within the error a few roundings leave.
Near(x, y) ==
    /\ IsFinite(x) /\ IsFinite(y)
    /\ FLt(FAbs(FSub(x, y)), Rat(4, Precision))

\* C20: for a batch of examples with finite entries, one example per column,
\* the softmax outputs of each example sum to 1 and each of them is e^x over
\* the sum of e^x of that example's activations.
C20_SoftmaxPerExample ==
    (/\ call.op \in {"softmax_exec", "softmax_forward"}
     /\ call.input.dim = 2) =>
        \A j \in 1..Cols(call.input) :
            /\ Near(SumSeq([i \in 1..Rows(call.input) |-> call.output.a[i][j]]), FOne)
            /\ \A i \in 1..Rows(call.input) :
                  Near(call.output.a[i][j],
                       FDiv(FExp(call.input.a[i][j]),
                            SumSeq([k \in 1..Rows(call.input) |->
                                      FExp(call.input.a[k][j])])))

\* ------------------------------------------------------------ C21
\* The elements of an array, row by row.
Elements(A) ==
    IF A.dim = 1 THEN A.a
    ELSE [k \in 1..(Rows(A) * Cols(A)) |->
             A.a[((k - 1) \div Cols(A)) + 1][((k - 1) % Cols(A)) + 1]]

\* C21: Relu's back gives, for every element, the upstream gradient where the
\* pre-activation is above zero and zero where it is zero or below.
C21_ReluBackGates ==
    call.op = "relu_back" =>
        \A k \in 1..Len(Elements(call.input)) :
            Elements(call.d_input)[k]
                = IF FLt(FZero, Elements(call.input)[k])
                  THEN Elements(call.d_output)[k] ELSE FZero

\* ------------------------------------------------------------ C22
\* C22: the sigmoid's output is 1 / (1 + e^(-x)) in exec and in forward, and
\* its back multiplies the upstream gradient by y * (1 - y).
C22_SigmoidIsLogistic ==
    /\ call.op \in {"sigmoid_exec", "sigmoid_forward"} =>
          \A k \in 1..Len(Elements(call.input)) :
              Near(Elements(call.output)[k],
                   FDiv(FOne, FAdd(FOne, FExp(FNeg(Elements(call.input)[k])))))
    /\ call.op = "sigmoid_back" =>
          \A k \in 1..Len(Elements(call.input)) :
              Near(Elements(call.d_input)[k],
                   FMul(Elements(call.d_output)[k],
                        FMul(Elements(call.state.output)[k],
                             FSub(FOne, Elements(call.state.output)[k]))))

\* ------------------------------------------------------------ C23
\* C23: a train call runs forward, the cost's derivative and back once, on
\* one graph; what they give is masked (under dropout), then regularised, and
\* the result is handed to exactly one step of the optimiser, whose outcome is
\* the stored graph and optimiser: after k train calls Adam's t is k.
C23_OneStepPerTrain ==
    /\ (pc = "training" /\ trainer.optimiser.kind = "Adam") =>
          trainer.optimiser.t = trains
    /\ call.op = "train" =>
          /\ trains >= 1
          /\ call.raw = GetGrads(call.used, call.input, call.expected)
          /\ ~call.dropping => GraphEq(call.masked_grads, call.raw.grads)
          /\ trainer.regularisation.kind = "None" =>
                GraphEq(call.grads, call.masked_grads)
          /\ GraphEq(graph, Optimise(call.optimiser_before, call.before,
                                     call.grads).graph)
          /\ trainer.optimiser = Optimise(call.optimiser_before, call.before,
                                          call.grads).optimiser

\* The second train call of a trainer with dropout, L2 and Adam has been made
\* and has moved a parameter.
C23_Witness ==
    /\ call.op = "train"
    /\ trains = 2
    /\ call.dropping
    /\ trainer.regularisation.kind = "L2"
    /\ trainer.optimiser.kind = "Adam"
    /\ call.optimiser_before.t = 1
    /\ Params(graph) # Params(call.before)

C25_OnlyOptimiserWrites ==
    call.op = "train" =>
        /\ GraphEq(graph, Optimise(call.optimiser_before, call.before,
                                   call.grads).graph)
        /\ call.optimiser_before.kind \in {"SGD", "SGD0"} =>
              \A i \in 1..Len(Params(call.grads)) :
                  Params(call.grads)[i] = FZero =>
                      Params(graph)[i] = Params(call.before)[i]

\* A train call with SGD and dropout dropped a parameter that is not zero:
\* the clone holds zero there and the stored graph the value it had.
C25_Witness ==
    /\ call.op = "train" /\ call.dropping
    /\ call.optimiser_before.kind = "SGD"
    /\ \E i \in 1..Len(Params(call.before)) :
          /\ FLt(Params(call.dropouts)[i], trainer.dropout)
          /\ Params(call.before)[i] # FZero
          /\ Params(call.masked)[i] = FZero
          /\ Params(call.grads)[i] = FZero
          /\ Params(graph)[i] = Params(call.before)[i]

\* ------------------------------------------------------------ C26
\* C26: the cost a train call returns is the cost of the output that the
\* graph, with the parameters it had before the call's optimiser step, gives
\* on the call's input.
C26_CostOfForwardOutput ==
    call.op = "train" =>
        call.cost = MSECost(Exec(call.before, call.input), call.expected)

\* A train call of lib.rs returned a finite cost, and the graph its optimiser
\* step left has another cost on the same batch.
C26_Witness ==
    /\ call.op = "train"
    /\ trainer.train = "lib"
    /\ IsFinite(call.cost)
    /\ IsFinite(MSECost(Exec(graph, call.input), call.expected))
    /\ MSECost(Exec(graph, call.input), call.expected) # call.cost

\* ------------------------------------------------------------ C27
\* Column j of an Array2.
Column(A, j) == [i \in 1..Rows(A) |-> A.a[i][j]]

\* The squared distance between two vectors.
SquaredDistance(u, v) ==
    SumSeq([i \in 1..Len(u) |-> FMul(FSub(u[i], v[i]), FSub(u[i], v[i]))])

\* C27: for a batch, one example per column, the MSE cost is the mean over
\* the examples of the squared distance between the example's output and its
\* expected output.
C27_BatchCostIsMeanOfExamples ==
    (call.op = "train" /\ call.raw.output.dim = 2) =>
        call.raw.cost
            = FDiv(SumSeq([j \in 1..Cols(call.expected) |->
                             SquaredDistance(Column(call.raw.output, j),
                                             Column(call.expected, j))]),
                   FInt(Cols(call.expected)))

\* ------------------------------------------------------------ C28
\* The indices a batch holds.
Members(batch) == {batch[i] : i \in 1..Len(batch)}

\* C28: for length >= batch_size >= 1 make_bacthes returns
\* ceil(length / batch_size) batches of exactly batch_size indices each, taken
\* from one permutation of 0 .. length - 1: the consecutive chunks, and, when
\* length is not a multiple of batch_size, the last batch_size indices of the
\* permutation, which overlap the batch before; every index is in a batch.
C28_MakeBatches ==
    (/\ call.op = "make_bacthes"
     /\ data.batch_size >= 1 /\ data.batch_size <= data.length) =>
        LET L == data.length
            b == data.batch_size
            bs == call.batches
        IN  /\ call.pc # "panicked"
            /\ call.pc = "returned" =>
                  /\ Len(bs) = (L + b - 1) \div b
                  /\ Members(data.numbers) = 0..(L - 1)
                  /\ \A k \in 1..Len(bs) : Len(bs[k]) = b
                  /\ \A k \in 1..(L \div b) :
                        bs[k] = SubSeq(data.numbers, (k - 1) * b + 1, k * b)
                  /\ UNION {Members(bs[k]) : k \in 1..Len(bs)} = 0..(L - 1)
                  /\ (L % b) # 0 =>
                        /\ bs[Len(bs)] = SubSeq(data.numbers, L - b + 1, L)
                        /\ Members(bs[Len(bs)]) \cap Members(bs[Len(bs) - 1]) # {}

\* make_bacthes returned two batches of three for four shuffled examples.
C28_Witness ==
    /\ call.op = "make_bacthes" /\ call.pc = "returned"
    /\ data.length = 4 /\ data.batch_size = 3
    /\ Len(call.batches) = 2
    /\ data.numbers # Identity(4)
    /\ call.batches[2][1] = call.batches[1][2]

\* ------------------------------------------------------------ C29
\* The Step events of a sequence of events.
StepsOf(events) == SelectSeq(events, LAMBDA e : e.type = "Step")

\* The EpochComplete events of a sequence of events.
EpochsOf(events) == SelectSeq(events, LAMBDA e : e.type = "EpochComplete")

\* C29: whenever the training thread is at a send, the channel accepts the
\* event at once (the only guard of the send beside the thread's position),
\* whatever the channel holds and whatever the UI loop has received;
\* the UI loop's handlers write the App's steps and costs only: the number of
\* train calls and the training thread's sums follow from what that thread
\* has done itself, and the App from what the loop has received.
C29_SendNeverBlocks ==
    pc = "events" =>
        /\ trainer.pc \in {"send_step", "send_epoch"} => CanSend(call.queue)
        /\ trains - Len(StepsOf(trainer.sent)) \in {0, 1}
        /\ trainer.pc = "send_step" => trains = Len(StepsOf(trainer.sent)) + 1
        /\ trainer.pc \in {"epoch", "train", "send_epoch"}
              => trains = Len(StepsOf(trainer.sent))
        /\ trainer.epoch = Len(EpochsOf(trainer.sent))
        /\ Len(call.app.costs) = Len(EpochsOf(call.received))
        /\ call.app.steps
              = IF StepsOf(call.received) = <<>> THEN <<0, 1>>
                ELSE <<StepsOf(call.received)[Len(StepsOf(call.received))].step,
                       trainer.n>>

\* The training thread is about to send while events of the tick thread, of
\* the input thread and of its own wait in the channel.
C29_Witness ==
    /\ pc = "events"
    /\ trainer.pc = "send_epoch"
    /\ call.ui = "running"
    /\ Len(call.queue) >= 3
    /\ \E i, j, k \in 1..Len(call.queue) :
          /\ call.queue[i].type = "Tick"
          /\ call.queue[j].type = "Input"
          /\ call.queue[k].type = "Step"

\* ------------------------------------------------------------ C30
\* C30: the training thread's events reach the UI loop in the order they were
\* sent: what it has received of them is the beginning of what was sent, the
\* k-th of them being Step(j, n) for j = 0 .. n - 1 in turn and then the
\* EpochComplete of that epoch, epoch after epoch.
C30_TrainingEventsInOrder ==
    pc = "events" =>
        LET r == call.received
            n == trainer.n
        IN  /\ Len(r) <= Len(trainer.sent)
            /\ r = SubSeq(trainer.sent, 1, Len(r))
            /\ \A k \in 1..Len(r) :
                  IF (k - 1) % (n + 1) < n
                  THEN /\ r[k].type = "Step"
                       /\ r[k].step = (k - 1) % (n + 1)
                       /\ r[k].steps = n
                  ELSE r[k].type = "EpochComplete"

\* The UI loop has received a whole epoch of two steps and a step of the next
\* epoch, a tick and a key having been sent in between.
C30_Witness ==
    /\ pc = "events"
    /\ trainer.n = 2
    /\ Len(call.received) = 4
    /\ call.received[3].type = "EpochComplete"
    /\ call.received[4].type = "Step"
    /\ call.app.steps = <<0, 2>>
    /\ Len(call.app.costs) = 1
    /\ data.ticks = 1 /\ data.keys = 1

====
